---- MODULE Spec2Model ----
(***************************************************************************)
(* A model of the dht-crawler workspace.                                   *)
(*                                                                         *)
(*  - packages/tokio_krpc: the transaction registry (ActiveTransactions),  *)
(*    the request path (RequestTransport -> SendTransport::request ->      *)
(*    ResponseFuture) and the inbound stream (receive_inbound_messages,    *)
(*    KRPCNode::serve).                                                    *)
(*  - packages/routing_table: NodeContactState, KBucket, RoutingTable and  *)
(*    LivenessTransport.                                                   *)
(*                                                                         *)
(* Options are sets with at most one element: None is {}, Some(x) is {x}.  *)
(***************************************************************************)
EXTENDS Integers, Sequences, FiniteSets, TLC

VARIABLES
    transactions,  \* ActiveTransactions.transactions: token -> TxState
    pc,            \* per request task: its position in request()
    call,          \* per request task: [op, via, to] of the call it runs
    token,         \* per request task: Option of the transaction id it drew
    woken,         \* request tasks whose waker was woken since their last poll
    outcome,       \* per request task: Option of what request() produced
    wire,          \* request tasks whose query datagram left the socket
    net,           \* datagrams waiting in the socket's receive queue
    nDatagrams,    \* datagrams the remote side has produced so far
    lastRecv,      \* Option of the inbound stream's last step: [read, item]
    streamFailed,  \* the inbound stream has yielded a failed item
    streamDone,    \* the inbound stream returned None (terminated)
    root,          \* RoutingTable.root: the tree of k-buckets
    now,           \* wall clock, in minutes
    owner_id,      \* RoutingTable.id
    script,        \* the ids the table's caller adds, in the order it meets them
    fresh,         \* how many ids of the script the caller has added so far
    add,           \* Option of the add_node call waiting for a probe's reply
    returned,      \* Option of the reference the last add_node returned
    probes,        \* probes the last add_node call has sent
    nEvents,       \* marks made, probes failed and clock advances so far
    lookup,        \* Option of the lookup the caller holds: [id, result]
    boot,          \* the bootstrap call: its position and its locals
    contact,       \* Option of a NodeContactState a caller holds outside a table
    token_validator,  \* TokenValidator: [token_secret, last_token_secret]
    issued,        \* tokens handed out: [addr, token, rotations since]
    buckets,       \* dht_crawler RoutingTable.buckets: the buckets in key order
    torrents,      \* Dht.torrents: info_hash -> the endpoints announced for it
    sent,          \* what the handler gave to send_transport.send: [to, message]
    inbound,       \* Option of the item process_request took from the stream last
    codec          \* Option of a value a caller of the codecs holds, and its forms

txVars == <<transactions, pc, call, token, woken, outcome, wire, net, nDatagrams,
            lastRecv, streamFailed, streamDone>>
rtVars == <<root, now, owner_id, script, fresh, add, returned, probes, nEvents, lookup, boot,
            contact>>
dhtVars == <<token_validator, issued, buckets, torrents, sent, inbound, codec>>
vars == <<transactions, pc, call, token, woken, outcome, wire, net, nDatagrams,
          lastRecv, streamFailed, streamDone, root, now, owner_id, script,
          fresh, add, returned, probes, nEvents, lookup, boot, contact,
          token_validator, issued, buckets, torrents, sent, inbound, codec>>

None == {}
Some(x) == {x}
Unwrap(o) == CHOOSE x \in o : TRUE

(***************************************************************************)
(* Bounds of the transport model.                                          *)
(***************************************************************************)
MaxRequests == 2     \* request() calls
MaxToken == 1        \* tokens are drawn from 0..MaxToken (a slice of u32)
MaxDatagrams == 2    \* datagrams the remote side produces

Reqs == 1..MaxRequests
Tokens == 0..MaxToken
Endpoints == {"10.0.0.1:6881"}       \* the endpoints queries are sent to
StrayEndpoint == "10.0.0.9:6881"    \* an endpoint no query is sent to

(***************************************************************************)
(* transaction_id.rs                                                       *)
(***************************************************************************)
\* u32::to_be_bytes
to_be_bytes(t) ==
    << (t \div 16777216) % 256, (t \div 65536) % 256, (t \div 256) % 256, t % 256 >>

\* read_u32::<NetworkEndian> of the first four bytes
read_u32_be(bytes) ==
    bytes[1] * 16777216 + bytes[2] * 65536 + bytes[3] * 256 + bytes[4]

\* A parse that forgets the length check and reads the leading four bytes.
parse_no_length_check(bytes) ==
    IF Len(bytes) < 4
    THEN [ok |-> FALSE, id |-> 0, err |-> "InvalidResponseTransactionId"]
    ELSE [ok |-> TRUE, id |-> read_u32_be(bytes), err |-> ""]

parse_originating_transaction_id(bytes) ==
    IF Len(bytes) # 4
    THEN [ok |-> FALSE, id |-> 0, err |-> "InvalidResponseTransactionId"]
    ELSE [ok |-> TRUE, id |-> read_u32_be(bytes), err |-> ""]

(***************************************************************************)
(* active_transactions.rs: the registry is a HashMap, here a function      *)
(* whose domain is the set of registered tokens.                           *)
(***************************************************************************)
AwaitingResponse(waker) == [tag |-> "AwaitingResponse", waker |-> waker, response |-> None]
GotResponse(message) == [tag |-> "GotResponse", waker |-> None, response |-> Some(message)]

map_insert(map, k, v) == [x \in (DOMAIN map) \cup {k} |-> IF x = k THEN v ELSE map[x]]
map_remove(map, k) == [x \in (DOMAIN map) \ {k} |-> map[x]]

add_transaction(map, transaction_id) ==
    map_insert(map, transaction_id, AwaitingResponse(None))

\* A drop that forgets to remove the entry.
drop_transaction_leaks(map, transaction_id) == map

drop_transaction(map, transaction_id) == map_remove(map, transaction_id)

\* A handle_response that stores a duplicate reply over the first one.
handle_response_overwrites(map, message) ==
    LET parsed == parse_originating_transaction_id(message.transaction_id) IN
    IF ~parsed.ok
    THEN [map |-> map, ok |-> FALSE, err |-> parsed.err, wake |-> None]
    ELSE IF parsed.id \notin DOMAIN map
    THEN [map |-> map, ok |-> FALSE, err |-> "UnknownTransactionReceived", wake |-> None]
    ELSE [map |-> map_insert(map, parsed.id, GotResponse(message)),
          ok |-> TRUE, err |-> "", wake |-> map[parsed.id].waker]

\* A handle_response that completes some pending transaction, whatever the
\* token of the reply.
handle_response_any_key(map, message) ==
    LET pending == {k \in DOMAIN map : map[k].tag = "AwaitingResponse"} IN
    IF pending = {}
    THEN [map |-> map, ok |-> FALSE, err |-> "UnknownTransactionReceived", wake |-> None]
    ELSE LET k == CHOOSE x \in pending : \A y \in pending : x <= y IN
         [map |-> map_insert(map, k, GotResponse(message)),
          ok |-> TRUE, err |-> "", wake |-> map[k].waker]

\* A handle_response that stores the reply and wakes nobody.
handle_response_silent(map, message) ==
    LET parsed == parse_originating_transaction_id(message.transaction_id) IN
    IF ~parsed.ok
    THEN [map |-> map, ok |-> FALSE, err |-> parsed.err, wake |-> None]
    ELSE IF parsed.id \notin DOMAIN map
    THEN [map |-> map, ok |-> FALSE, err |-> "UnknownTransactionReceived", wake |-> None]
    ELSE IF map[parsed.id].tag = "GotResponse"
    THEN [map |-> map, ok |-> TRUE, err |-> "", wake |-> None]
    ELSE [map |-> map_insert(map_remove(map, parsed.id), parsed.id, GotResponse(message)),
          ok |-> TRUE, err |-> "", wake |-> None]

\* handle_response: [map: the registry afterwards, ok/err: the Result,
\* wake: Option of the waker that is woken]
handle_response(map, message) ==
    LET parsed == parse_originating_transaction_id(message.transaction_id) IN
    IF ~parsed.ok
    THEN [map |-> map, ok |-> FALSE, err |-> parsed.err, wake |-> None]
    ELSE IF parsed.id \notin DOMAIN map
    THEN [map |-> map, ok |-> FALSE, err |-> "UnknownTransactionReceived", wake |-> None]
    ELSE LET current_tx_state == map[parsed.id]
             removed == map_remove(map, parsed.id) IN
         IF current_tx_state.tag = "GotResponse"
         THEN [map |-> map_insert(removed, parsed.id, current_tx_state),
               ok |-> TRUE, err |-> "", wake |-> None]
         ELSE [map |-> map_insert(removed, parsed.id, GotResponse(message)),
               ok |-> TRUE, err |-> "", wake |-> current_tx_state.waker]

\* poll_response: [map, ready, ok, response: Option, err]
poll_response(map, transaction_id, waker) ==
    IF transaction_id \notin DOMAIN map
    THEN [map |-> map, ready |-> TRUE, ok |-> FALSE, response |-> None,
          err |-> "UnknownTransactionPolled"]
    ELSE LET tx_state == map[transaction_id]
             removed == map_remove(map, transaction_id) IN
         IF tx_state.tag = "GotResponse"
         THEN [map |-> removed, ready |-> TRUE, ok |-> TRUE,
               response |-> tx_state.response, err |-> ""]
         ELSE IF tx_state.waker # None
         THEN [map |-> map_insert(removed, transaction_id, tx_state),
               ready |-> FALSE, ok |-> TRUE, response |-> None, err |-> ""]
         ELSE [map |-> map_insert(removed, transaction_id, AwaitingResponse(Some(waker))),
               ready |-> FALSE, ok |-> TRUE, response |-> None, err |-> ""]

(***************************************************************************)
(* inbound.rs and krpc_node.rs: the inbound stream.                        *)
(*                                                                         *)
(* A datagram in the receive queue is [from, decodable, transaction_id,    *)
(* y]: decodable says whether Envelope::decode accepts the bytes, y is the *)
(* envelope's message type.                                                *)
(***************************************************************************)
Datagram(from, decodable, transaction_id, y) ==
    [from |-> from, decodable |-> decodable, transaction_id |-> transaction_id, y |-> y]

\* receive_inbound_message, given the outcome of recv_from: Option of a datagram
receive_inbound_message(received) ==
    IF received = None
    THEN [ok |-> FALSE, err |-> "FailedToReceiveMessage", envelope |-> None]
    ELSE IF ~Unwrap(received).decodable
    THEN [ok |-> FALSE, err |-> "InvalidInboundMessage", envelope |-> None]
    ELSE [ok |-> TRUE, err |-> "", envelope |-> received]

\* A wrapper that ends the stream at the first failed receive.
receive_inbound_message_wrapper_stops(result) ==
    IF result.ok THEN Some(result) ELSE None

\* receive_inbound_message_wrapper: what stream::unfold is handed; None ends
\* the stream.
receive_inbound_message_wrapper(result) == Some(result)

\* The closure of KRPCNode::serve with try_filter_map applied:
\* [map, item: Option of the item the stream yields, wake]
serve_item(map, result) ==
    IF ~result.ok
    THEN [map |-> map, item |-> Some([ok |-> FALSE, err |-> result.err, query |-> None]),
          wake |-> None]
    ELSE LET envelope == Unwrap(result.envelope) IN
         IF envelope.y = "q"
         THEN [map |-> map,
               item |-> Some([ok |-> TRUE, err |-> "", query |-> Some(envelope)]),
               wake |-> None]
         ELSE LET handled == handle_response(map, envelope) IN
              IF handled.ok
              THEN [map |-> handled.map, item |-> None, wake |-> handled.wake]
              ELSE [map |-> handled.map,
                    item |-> Some([ok |-> FALSE, err |-> handled.err, query |-> None]),
                    wake |-> handled.wake]

\* One poll of the inbound stream that completes a read: received is the
\* outcome of recv_from.
StreamStep(received) ==
    /\ ~streamDone
    /\ LET result == receive_inbound_message(received)
           unfolded == receive_inbound_message_wrapper(result) IN
       IF unfolded = None
       THEN /\ streamDone' = TRUE
            /\ lastRecv' = Some([read |-> received, item |-> None])
            /\ UNCHANGED <<transactions, woken, streamFailed>>
       ELSE LET served == serve_item(transactions, Unwrap(unfolded)) IN
            /\ transactions' = served.map
            /\ woken' = woken \cup served.wake
            /\ lastRecv' = Some([read |-> received, item |-> served.item])
            /\ streamFailed' = (streamFailed \/ \E i \in served.item : ~i.ok)
            /\ UNCHANGED streamDone

\* The stream reads the datagram d from the socket.
Recv(d) ==
    /\ d \in net
    /\ StreamStep(Some(d))
    /\ net' = net \ {d}
    /\ UNCHANGED <<pc, call, token, outcome, wire, nDatagrams>>
    /\ UNCHANGED <<rtVars, dhtVars>>

\* recv_from fails with an I/O error.
RecvIoError ==
    /\ StreamStep(None)
    /\ UNCHANGED <<pc, call, token, outcome, wire, net, nDatagrams>>
    /\ UNCHANGED <<rtVars, dhtVars>>

(***************************************************************************)
(* The remote side.                                                        *)
(***************************************************************************)

\* The node a query was sent to answers it ("r") or reports an error ("e");
\* it may do so more than once, and late.
RemoteReply(r, y) ==
    /\ nDatagrams < MaxDatagrams
    /\ r \in wire
    /\ nDatagrams' = nDatagrams + 1
    /\ net' = net \cup {Datagram(Unwrap(call[r]).to, TRUE,
                                 to_be_bytes(Unwrap(token[r])), y)}
    /\ UNCHANGED <<transactions, pc, call, token, woken, outcome, wire, lastRecv, streamFailed, streamDone>>
    /\ UNCHANGED <<rtVars, dhtVars>>

\* Transaction ids of datagrams nobody asked for: too short, too long (its
\* leading four bytes spell token 1), a token outside the registry, and the
\* tokens in use.
StrayTransactionIds ==
    {<<0, 0, 1>>, <<0, 0, 0, 1, 0>>, to_be_bytes(MaxToken + 1)}
        \cup {to_be_bytes(t) : t \in Tokens}

\* A node sends a datagram of its own accord: undecodable bytes, a query,
\* or a response with any transaction id.
RemoteStray(from, decodable, transaction_id, y) ==
    /\ nDatagrams < MaxDatagrams
    /\ nDatagrams' = nDatagrams + 1
    /\ net' = net \cup {Datagram(from, decodable, transaction_id, y)}
    /\ UNCHANGED <<transactions, pc, call, token, woken, outcome, wire, lastRecv, streamFailed, streamDone>>
    /\ UNCHANGED <<rtVars, dhtVars>>

(***************************************************************************)
(* request_transport.rs, routing_table/transport.rs, send_transport.rs,    *)
(* response_future.rs: one task per call.  Positions:                      *)
(*   idle     not called yet                                               *)
(*   sending  in SendTransport::send (lock, send_to)                       *)
(*   sent     send returned Ok; add_transaction not yet called             *)
(*   waiting  the ResponseFuture exists and is pending                     *)
(*   ready    poll_response returned Ready; the future is not yet dropped  *)
(*   done     the call returned or its future was dropped                  *)
(***************************************************************************)
\* The typed operations and the layer the caller uses: RequestTransport has
\* four, LivenessTransport wraps two of them in .timeout().
Calls ==
    [op : {"ping", "find_node", "get_peers", "announce_peer"}, via : {"RequestTransport"}]
        \cup [op : {"ping", "find_node"}, via : {"LivenessTransport"}]

\* The two ways to ping.  Every operation reaches the registry through the
\* same SendTransport::request, which never looks at the query, so the
\* registry is explored with these two.
PingCalls == {c \in Calls : c.op = "ping"}

\* Whether the call is wrapped in tokio's timeout.
has_timeout(c) == c.via = "LivenessTransport"

\* SendTransport::request up to the await of send: draws the token and
\* builds the envelope.
Start(r, c, to, t) ==
    /\ pc[r] = "idle"
    /\ pc' = [pc EXCEPT ![r] = "sending"]
    /\ call' = [call EXCEPT ![r] = Some([op |-> c.op, via |-> c.via, to |-> to])]
    /\ token' = [token EXCEPT ![r] = Some(t)]
    /\ UNCHANGED <<transactions, woken, outcome, wire, net, nDatagrams, lastRecv, streamFailed, streamDone>>
    /\ UNCHANGED <<rtVars, dhtVars>>

\* send_to succeeds: the query is on the wire.
Send(r) ==
    /\ pc[r] = "sending"
    /\ pc' = [pc EXCEPT ![r] = "sent"]
    /\ wire' = wire \cup {r}
    /\ UNCHANGED <<transactions, call, token, woken, outcome, net, nDatagrams,
                   lastRecv, streamFailed, streamDone>>
    /\ UNCHANGED <<rtVars, dhtVars>>

\* send fails (encoding or socket error): request returns before wait_for_tx.
SendFail(r) ==
    /\ pc[r] = "sending"
    /\ pc' = [pc EXCEPT ![r] = "done"]
    /\ outcome' = [outcome EXCEPT ![r] = Some([kind |-> "SendError", envelope |-> None])]
    /\ UNCHANGED <<transactions, call, token, woken, wire, net, nDatagrams, lastRecv, streamFailed, streamDone>>
    /\ UNCHANGED <<rtVars, dhtVars>>

\* ResponseFuture::wait_for_tx: add_transaction, then the future is created.
Register(r) ==
    /\ pc[r] = "sent"
    /\ transactions' = add_transaction(transactions, Unwrap(token[r]))
    /\ pc' = [pc EXCEPT ![r] = "waiting"]
    /\ woken' = woken \cup {r}
    /\ UNCHANGED <<call, token, outcome, wire, net, nDatagrams, lastRecv, streamFailed, streamDone>>
    /\ UNCHANGED <<rtVars, dhtVars>>

\* ResponseFuture::try_poll
Poll(r) ==
    /\ pc[r] = "waiting"
    /\ LET polled == poll_response(transactions, Unwrap(token[r]), r) IN
       /\ transactions' = polled.map
       /\ woken' = woken \ {r}
       /\ IF polled.ready
          THEN /\ pc' = [pc EXCEPT ![r] = "ready"]
               /\ outcome' = [outcome EXCEPT ![r] =
                     Some([kind |-> IF polled.ok THEN "Envelope" ELSE polled.err,
                           envelope |-> polled.response])]
          ELSE UNCHANGED <<pc, outcome>>
    /\ UNCHANGED <<call, token, wire, net, nDatagrams, lastRecv, streamFailed, streamDone>>
    /\ UNCHANGED <<rtVars, dhtVars>>

\* The rest of wait_for_tx: the ResponseFuture is dropped and the envelope
\* becomes the call's result.
Finish(r) ==
    /\ pc[r] = "ready"
    /\ transactions' = drop_transaction(transactions, Unwrap(token[r]))
    /\ pc' = [pc EXCEPT ![r] = "done"]
    /\ outcome' = [outcome EXCEPT ![r] =
          LET o == Unwrap(outcome[r]) IN
          IF o.kind # "Envelope" THEN Some(o)
          ELSE IF Unwrap(o.envelope).y = "e"
               THEN Some([kind |-> "ReceivedKRPCError", envelope |-> o.envelope])
               ELSE Some([kind |-> "Response", envelope |-> o.envelope])]
    /\ UNCHANGED <<call, token, woken, wire, net, nDatagrams, lastRecv, streamFailed, streamDone>>
    /\ UNCHANGED <<rtVars, dhtVars>>

\* The future of the call is dropped at one of its awaits; a ResponseFuture
\* that exists is dropped with it.
DropCall(r, kind) ==
    /\ pc[r] \in {"sending", "waiting"}
    /\ transactions' = IF pc[r] = "waiting"
                       THEN drop_transaction(transactions, Unwrap(token[r]))
                       ELSE transactions
    /\ pc' = [pc EXCEPT ![r] = "done"]
    /\ outcome' = [outcome EXCEPT ![r] = Some([kind |-> kind, envelope |-> None])]
    /\ woken' = woken \ {r}
    /\ UNCHANGED <<call, token, wire, net, nDatagrams, lastRecv, streamFailed, streamDone>>
    /\ UNCHANGED <<rtVars, dhtVars>>

\* with_timeout: the timer fires before the call completes.
Timeout(r) ==
    /\ call[r] # None
    /\ has_timeout(Unwrap(call[r]))
    /\ DropCall(r, "Timeout")

\* The caller drops the call's future.
Cancel(r) == DropCall(r, "Dropped")

(***************************************************************************)
(* Bounds of the routing-table model.                                      *)
(***************************************************************************)
NODE_ID_SIZE_BITS == 5   \* width of a node id (160 in the program)
MaxContacts == 10        \* the caller stops adding once the table holds these
MaxEvents == 2           \* marks made, probes that fail and clock advances
MaxNow == 32             \* minutes the clock of a lone contact runs
MaxFailedQueries == 3    \* failed queries counted on a lone contact
MaxSecret == 2           \* secrets the token validator draws from
MaxIssued == 2           \* tokens out at a time
MaxRotations == 3        \* rotations a token is followed through
MaxQueries == 2          \* replies the query handler has sent

K_BUCKET_SIZE == 8       \* k_bucket.rs
GoodMinutes == 15        \* node_contact_state.rs, state()
BadFailedQueries == 2    \* node_contact_state.rs, state()

NodeIDs == 0..(2^NODE_ID_SIZE_BITS - 1)
Owners == {4, 5}
\* The caller meets the ids in ascending order, or the even ones first.
Ascending == [i \in 1..MaxContacts |-> i - 1]
EvensFirst ==
    [i \in 1..MaxContacts |->
        IF i <= K_BUCKET_SIZE THEN 2 * (i - 1) ELSE 2 * (i - K_BUCKET_SIZE - 1) + 1]
Scripts == {Ascending, EvensFirst}
\* Eight ids whose two lowest bits are set, then small ids.
LowBitsSet ==
    [i \in 1..MaxContacts |-> IF i <= K_BUCKET_SIZE THEN 4 * (i - 1) + 3 ELSE i - K_BUCKET_SIZE - 1]
TickMinutes == {1, GoodMinutes - 1}
ProbeAddress == "10.0.0.1:6881"

(***************************************************************************)
(* krpc_encoding/node_id.rs                                                *)
(***************************************************************************)
\* (self >> n) & 1 == 1: bit n counted from the least significant end.
nth_bit(id, n) == (id \div (2^n)) % 2 = 1

NodeInfo(node_id, address) == [node_id |-> node_id, address |-> address]

(***************************************************************************)
(* routing_table/node_contact_state.rs.  Indices of contacts are 1-based.  *)
(***************************************************************************)
NodeContactState_new(id, address) ==
    [id |-> id, address |-> address, last_successful_query_to |-> None,
     last_request_from |-> None, failed_queries |-> 0]

mark_successful_query(c, t) ==
    [c EXCEPT !.failed_queries = 0, !.last_successful_query_to = Some(t)]

mark_failed_query_forgets(c) == c

\* failed_queries is a u8 and `+= 1` is unchecked: this is the build that
\* wraps.  The build with overflow checks panics at 255 instead, which leaves
\* the contact as it was.
mark_failed_query(c) == [c EXCEPT !.failed_queries = (@ + 1) % 2^8]

mark_successful_request(c, t) == [c EXCEPT !.last_request_from = Some(t)]

state_requests_suffice(c, t) ==
    IF c.failed_queries >= BadFailedQueries THEN "Bad"
    ELSE IF /\ c.last_successful_query_to # None
            /\ t - Unwrap(c.last_successful_query_to) < GoodMinutes
         THEN "Good"
    ELSE IF /\ c.last_request_from # None
            /\ t - Unwrap(c.last_request_from) < GoodMinutes
         THEN "Good"
    ELSE "Questionable"

\* now is the clock in whole minutes, which is what num_minutes() compares.
state(c, t) ==
    IF c.failed_queries >= BadFailedQueries THEN "Bad"
    ELSE IF /\ c.last_successful_query_to # None
            /\ t - Unwrap(c.last_successful_query_to) < GoodMinutes
         THEN "Good"
    ELSE IF /\ c.last_request_from # None
            /\ c.last_successful_query_to # None
            /\ t - Unwrap(c.last_request_from) < GoodMinutes
         THEN "Good"
    ELSE "Questionable"

\* Not in the sources: the accessors take_questionable_node compares by, and
\* the update LivenessTransport::ping applies to the probed contact.
failed_queries(c) == c.failed_queries
last_contacted(c) == c.last_successful_query_to
update_from_result(c, ok, t) ==
    IF ok THEN mark_successful_query(c, t) ELSE mark_failed_query(c)

(***************************************************************************)
(* routing_table/transport.rs: LivenessTransport::ping.  response is the   *)
(* Option of the node id the reply carried; None is a call that timed out  *)
(* or failed to send.                                                      *)
(***************************************************************************)
ping_result_any_reply(node, response) ==
    IF response = None THEN "Timeout" ELSE "Ok"

ping_result(node, response) ==
    IF response = None THEN "Timeout"
    ELSE IF Unwrap(response) # node.id THEN "PingIdMismatch"
    ELSE "Ok"

ping(node, response, t) ==
    update_from_result(node, ping_result(node, response) = "Ok", t)

(***************************************************************************)
(* routing_table/k_bucket.rs                                               *)
(***************************************************************************)
KBucket(contacts, leaf_type) == [contacts |-> contacts, leaf_type |-> leaf_type]
initial == KBucket(<<>>, "Near")

Remove(seq, i) == SubSeq(seq, 1, i - 1) \o SubSeq(seq, i + 1, Len(seq))
First(S) == CHOOSE i \in S : \A j \in S : i <= j

get_node_index(bucket, node_id) ==
    LET found == {i \in DOMAIN bucket.contacts : bucket.contacts[i].id = node_id}
    IN IF found = {} THEN None ELSE Some(First(found))

good_nodes_unfiltered(bucket, t) ==
    [i \in DOMAIN bucket.contacts |->
        NodeInfo(bucket.contacts[i].id, bucket.contacts[i].address)]

good_nodes(bucket, t) ==
    LET good == SelectSeq(bucket.contacts, LAMBDA it : state(it, t) = "Good")
    IN [i \in DOMAIN good |-> NodeInfo(good[i].id, good[i].address)]

take_bad_node_keeps(bucket, t) ==
    LET bad == {i \in DOMAIN bucket.contacts : state(bucket.contacts[i], t) = "Bad"}
    IN IF bad = {} THEN [bucket |-> bucket, taken |-> None]
       ELSE [bucket |-> bucket, taken |-> Some(bucket.contacts[First(bad)])]

take_bad_node(bucket, t) ==
    LET bad == {i \in DOMAIN bucket.contacts : state(bucket.contacts[i], t) = "Bad"}
    IN IF bad = {} THEN [bucket |-> bucket, taken |-> None]
       ELSE [bucket |-> [bucket EXCEPT !.contacts = Remove(@, First(bad))],
             taken |-> Some(bucket.contacts[First(bad)])]

\* The comparator of min_by: Ordering::Less.
questionable_less(lhs, rhs) ==
    IF failed_queries(lhs) # failed_queries(rhs)
    THEN failed_queries(lhs) < failed_queries(rhs)
    ELSE IF last_contacted(lhs) = None THEN last_contacted(rhs) # None
    ELSE IF last_contacted(rhs) = None THEN FALSE
    ELSE Unwrap(last_contacted(lhs)) < Unwrap(last_contacted(rhs))

\* min_by keeps the first of several equally small elements.
take_questionable_node(bucket, t) ==
    LET cs == bucket.contacts
        q == {i \in DOMAIN cs : state(cs[i], t) = "Questionable"}
        least == {i \in q : \A j \in q : ~questionable_less(cs[j], cs[i])}
    IN IF q = {} THEN [bucket |-> bucket, taken |-> None]
       ELSE [bucket |-> [bucket EXCEPT !.contacts = Remove(@, First(least))],
             taken |-> Some(cs[First(least)])]

definitely_has_remaining_space_off_by_one(bucket) ==
    Len(bucket.contacts) <= K_BUCKET_SIZE

definitely_has_remaining_space(bucket) == Len(bucket.contacts) < K_BUCKET_SIZE

\* KBucket::add_node: the bucket after the push; the index is its length.
add_node(bucket, node_info) ==
    [bucket EXCEPT !.contacts =
        Append(@, NodeContactState_new(node_info.node_id, node_info.address))]

split_near_first(bucket, owner_id_, depth) ==
    LET zero_bit_nodes == SelectSeq(bucket.contacts, LAMBDA node : ~nth_bit(node.id, depth))
        one_bit_nodes == SelectSeq(bucket.contacts, LAMBDA node : nth_bit(node.id, depth))
        owner_is_one_bit == nth_bit(owner_id_, depth)
    IN IF owner_is_one_bit
       THEN <<KBucket(one_bit_nodes, "Near"), KBucket(zero_bit_nodes, "Far")>>
       ELSE <<KBucket(zero_bit_nodes, "Near"), KBucket(one_bit_nodes, "Far")>>

split(bucket, owner_id_, depth) ==
    LET zero_bit_nodes == SelectSeq(bucket.contacts, LAMBDA node : ~nth_bit(node.id, depth))
        one_bit_nodes == SelectSeq(bucket.contacts, LAMBDA node : nth_bit(node.id, depth))
        owner_is_one_bit == nth_bit(owner_id_, depth)
    IN <<KBucket(zero_bit_nodes, IF owner_is_one_bit THEN "Far" ELSE "Near"),
         KBucket(one_bit_nodes, IF owner_is_one_bit THEN "Near" ELSE "Far")>>

LeafType_can_split_any(leaf_type) == leaf_type \in {"Near", "Far"}

LeafType_can_split(leaf_type) == leaf_type = "Near"
can_split(bucket) == LeafType_can_split(bucket.leaf_type)

evict_questionable_node_forgets(bucket, questionable_node, response, t) ==
    LET node == ping(questionable_node, response, t)
    IN IF state(node, t) \in {"Questionable", "Good"}
       THEN [bucket |-> bucket, evicted |-> FALSE]
       ELSE [bucket |-> bucket, evicted |-> TRUE]

\* evict_questionable_node from the probe's reply on.
evict_questionable_node(bucket, questionable_node, response, t) ==
    LET node == ping(questionable_node, response, t)
    IN IF state(node, t) \in {"Questionable", "Good"}
       THEN [bucket |-> [bucket EXCEPT !.contacts = Append(@, node)], evicted |-> FALSE]
       ELSE [bucket |-> bucket, evicted |-> TRUE]

(***************************************************************************)
(* routing_table/full_b_tree.rs.  A path is the sequence of branches from  *)
(* the root to a node: what a &mut FullBTreeNode refers to.                *)
(***************************************************************************)
Leaf(bucket) == [kind |-> "Leaf", bucket |-> bucket]
Inner(left, right) == [kind |-> "Inner", left |-> left, right |-> right]

RECURSIVE node_at(_, _)
node_at(tree, path) ==
    IF path = <<>> THEN tree
    ELSE node_at(IF Head(path) = "left" THEN tree.left ELSE tree.right, Tail(path))

RECURSIVE replace_at(_, _, _)
replace_at(tree, path, node) ==
    IF path = <<>> THEN node
    ELSE IF Head(path) = "left"
         THEN Inner(replace_at(tree.left, Tail(path), node), tree.right)
         ELSE Inner(tree.left, replace_at(tree.right, Tail(path), node))

unwrap_as_leaf(tree, path) == node_at(tree, path).bucket

FullBTreeNode_split(node, owner_id_, depth) ==
    LET halves == split(node.bucket, owner_id_, depth)
    IN Inner(Leaf(halves[1]), Leaf(halves[2]))

RECURSIVE leaves(_)
leaves(tree) ==
    IF tree.kind = "Leaf" THEN {tree.bucket}
    ELSE leaves(tree.left) \cup leaves(tree.right)

\* The paths of the leaves of a tree: its shape.
RECURSIVE LeafPaths(_)
LeafPaths(tree) ==
    IF tree.kind = "Leaf" THEN {<<>>}
    ELSE {<<"left">> \o p : p \in LeafPaths(tree.left)}
            \cup {<<"right">> \o p : p \in LeafPaths(tree.right)}

(***************************************************************************)
(* routing_table/routing_table.rs                                          *)
(***************************************************************************)
RECURSIVE find_bucket_mut_recursive(_, _, _)
find_bucket_mut_recursive(tree, node_id, depth) ==
    IF tree.kind = "Inner"
    THEN LET bit == nth_bit(node_id, depth)
             found == find_bucket_mut_recursive(
                          IF bit THEN tree.left ELSE tree.right, node_id, depth + 1)
         IN [path |-> <<IF bit THEN "left" ELSE "right">> \o found.path,
             depth |-> found.depth]
    ELSE [path |-> <<>>, depth |-> depth]

\* add_node runs until it returns or until it waits for a probe's reply.
\* Returned(tree, ref): it returned ref, an Option of [path, index].
\* Probing(...): it took questionable_node out of the leaf at path and waits.
Returned(tree, ref) == [root |-> tree, add |-> None, returned |-> ref]
Probing(tree, path, depth, node_info, questionable_node) ==
    [root |-> tree,
     add |-> Some([path |-> path, depth |-> depth, node_info |-> node_info,
                   questionable_node |-> questionable_node]),
     returned |-> None]

\* try_add pushed the contact: the reference add_node_rec hands back.
Pushed(tree, path, bucket, node_info) ==
    LET added == add_node(bucket, node_info)
    IN Returned(replace_at(tree, path, Leaf(added)),
                Some([path |-> path, index |-> Len(added.contacts)]))

RECURSIVE add_node_rec(_, _, _, _, _, _)
RECURSIVE try_add_loop(_, _, _, _, _, _)

\* try_add up to its loop, then the loop.
try_add(owner_id_, tree, path, depth, node_info, t) ==
    LET bucket == unwrap_as_leaf(tree, path)
        node_index == get_node_index(bucket, node_info.node_id)
        bad == take_bad_node(bucket, t)
    IN IF node_index # None
       THEN Returned(tree, Some([path |-> path, index |-> Unwrap(node_index)]))
       ELSE IF definitely_has_remaining_space(bucket)
       THEN Pushed(tree, path, bucket, node_info)
       ELSE IF bad.taken # None
       THEN Pushed(tree, path, bad.bucket, node_info)
       ELSE try_add_loop(owner_id_, tree, path, depth, node_info, t)

\* One turn of try_add's loop up to the probe; when no contact is
\* questionable try_add returns None and add_node_rec goes on to the split.
try_add_loop(owner_id_, tree, path, depth, node_info, t) ==
    LET bucket == unwrap_as_leaf(tree, path)
        q == take_questionable_node(bucket, t)
    IN IF q.taken # None
       THEN Probing(replace_at(tree, path, Leaf(q.bucket)), path, depth, node_info,
                    Unwrap(q.taken))
       ELSE IF ~can_split(bucket) THEN Returned(tree, None)
       ELSE IF depth >= NODE_ID_SIZE_BITS - 1 THEN Returned(tree, None)
       ELSE add_node_rec(owner_id_,
                         replace_at(tree, path,
                                    FullBTreeNode_split(node_at(tree, path), owner_id_, depth)),
                         path, node_info, depth, t)

\* root_node is the node at path `at` of the tree.
add_node_rec(owner_id_, tree, at, node_info, starting_depth, t) ==
    LET found == find_bucket_mut_recursive(node_at(tree, at), node_info.node_id,
                                           starting_depth)
    IN try_add(owner_id_, tree, at \o found.path, found.depth, node_info, t)

\* The probe's reply arrives: the rest of evict_questionable_node, then
\* try_add's match on what it returned.
try_add_resume(owner_id_, tree, a, response, t) ==
    LET e == evict_questionable_node(unwrap_as_leaf(tree, a.path), a.questionable_node,
                                     response, t)
        after == replace_at(tree, a.path, Leaf(e.bucket))
    IN IF e.evicted
       THEN Pushed(after, a.path, e.bucket, a.node_info)
       ELSE try_add_loop(owner_id_, after, a.path, a.depth, a.node_info, t)

get_node_mut(tree, ref) == unwrap_as_leaf(tree, ref.path).contacts[ref.index]

\* The generator's items in the order it yields them.
RECURSIVE find_nodes_generator_rec(_, _, _, _)
find_nodes_generator_rec(tree, node_id, depth, t) ==
    IF tree.kind = "Inner"
    THEN LET bit == nth_bit(node_id, depth)
             matching_branch == IF bit THEN tree.left ELSE tree.right
             other_branch == IF bit THEN tree.right ELSE tree.left
         IN find_nodes_generator_rec(matching_branch, node_id, depth + 1, t)
               \o find_nodes_generator_rec(other_branch, node_id, depth + 1, t)
    ELSE good_nodes(tree.bucket, t)

find_nodes_generator(tree, id, t) == find_nodes_generator_rec(tree, id, 0, t)

Take(seq, n) == SubSeq(seq, 1, IF Len(seq) < n THEN Len(seq) ELSE n)

FindNodeResult_Node(node_info) == [kind |-> "Node", node |-> node_info]
FindNodeResult_Nodes(nodes) == [kind |-> "Nodes", nodes |-> nodes]

find_node(tree, id, t) ==
    LET closest_nodes == Take(find_nodes_generator(tree, id, t), 8)
        matching == {idx \in DOMAIN closest_nodes : closest_nodes[idx].node_id = id}
    IN IF matching # {}
       THEN FindNodeResult_Node(closest_nodes[First(matching)])
       ELSE FindNodeResult_Nodes(closest_nodes)

(***************************************************************************)
(* The routing table and its caller.  add_node borrows the table mutably,  *)
(* so no other operation on the table runs while it waits for a probe.     *)
(***************************************************************************)
RECURSIVE Contacts(_)
Contacts(tree) ==
    IF tree.kind = "Leaf" THEN {tree.bucket.contacts[i] : i \in DOMAIN tree.bucket.contacts}
    ELSE Contacts(tree.left) \cup Contacts(tree.right)

RECURSIVE TotalContacts(_)
TotalContacts(tree) ==
    IF tree.kind = "Leaf" THEN Len(tree.bucket.contacts)
    ELSE TotalContacts(tree.left) + TotalContacts(tree.right)

\* The caller adds the next id of its script, or again one it added before.
AddNode(node_info) ==
    /\ add = None
    /\ TotalContacts(root) < MaxContacts
    /\ \E i \in 1..(fresh + 1) :
          /\ i \in DOMAIN script
          /\ node_info.node_id = script[i]
          /\ fresh' = IF i = fresh + 1 THEN fresh + 1 ELSE fresh
    /\ LET s == add_node_rec(owner_id, root, <<>>, node_info, 0, now)
       IN /\ root' = s.root
          /\ add' = s.add
          /\ returned' = s.returned
          /\ probes' = IF s.add # None THEN 1 ELSE 0
    /\ UNCHANGED <<now, owner_id, script, nEvents, lookup, boot, contact>>
    /\ UNCHANGED txVars
    /\ UNCHANGED dhtVars

PingResponses(node) ==
    {None, Some(node.id), Some((node.id + 1) % (2^NODE_ID_SIZE_BITS))}

\* The probe try_add waits for resolves.  failures is the number of failed
\* probes the model follows.
PingDoneWithin(response, failures) ==
    /\ add # None
    /\ LET a == Unwrap(add)
           failed == ping_result(a.questionable_node, response) # "Ok"
           s == try_add_resume(owner_id, root, a, response, now)
       IN /\ failed => nEvents < failures
          /\ nEvents' = IF failed THEN nEvents + 1 ELSE nEvents
          /\ root' = s.root
          /\ add' = s.add
          /\ returned' = s.returned
          /\ probes' = IF s.add # None THEN probes + 1 ELSE probes
    /\ UNCHANGED <<now, owner_id, script, fresh, lookup, boot, contact>>
    /\ UNCHANGED txVars
    /\ UNCHANGED dhtVars

PingDone(response) == PingDoneWithin(response, MaxEvents)

Marks == {"mark_successful_query", "mark_failed_query", "mark_successful_request"}

\* The caller uses the reference add_node returned.
Mark(m) ==
    /\ add = None
    /\ returned # None
    /\ nEvents < MaxEvents
    /\ LET ref == Unwrap(returned)
           c == get_node_mut(root, ref)
           marked == CASE m = "mark_successful_query" -> mark_successful_query(c, now)
                       [] m = "mark_failed_query" -> mark_failed_query(c)
                       [] m = "mark_successful_request" -> mark_successful_request(c, now)
           bucket == unwrap_as_leaf(root, ref.path)
       IN root' = replace_at(root, ref.path,
                             Leaf([bucket EXCEPT !.contacts[ref.index] = marked]))
    /\ nEvents' = nEvents + 1
    /\ UNCHANGED <<now, owner_id, script, fresh, add, returned, probes, lookup, boot, contact>>
    /\ UNCHANGED txVars
    /\ UNCHANGED dhtVars

Tick(d) ==
    /\ nEvents < MaxEvents
    /\ now' = now + d
    /\ nEvents' = nEvents + 1
    /\ UNCHANGED <<root, owner_id, script, fresh, add, returned, probes, lookup, boot, contact>>
    /\ UNCHANGED txVars
    /\ UNCHANGED dhtVars

\* The ids the caller looks up: those it has added, the next one it will
\* add, and the table's own.
LookupIds == {script[i] : i \in DOMAIN script \cap 1..(fresh + 1)} \cup {owner_id}

\* The caller calls find_node between two add_node calls and keeps the
\* result until it drops it.
FindNode(id) ==
    /\ add = None
    /\ lookup = None
    /\ lookup' = Some([id |-> id, result |-> find_node(root, id, now)])
    /\ UNCHANGED <<root, now, owner_id, script, fresh, add, returned, probes, nEvents, boot, contact>>
    /\ UNCHANGED txVars
    /\ UNCHANGED dhtVars

DropResult ==
    /\ lookup # None
    /\ lookup' = None
    /\ UNCHANGED <<root, now, owner_id, script, fresh, add, returned, probes, nEvents, boot, contact>>
    /\ UNCHANGED txVars
    /\ UNCHANGED dhtVars

(***************************************************************************)
(* routing_table.rs: bootstrap.  The network it walks: MaxPeers endpoints, *)
(* each of which, when it answers find_node, gives its id and endpoints it *)
(* knows: the next two, itself, the seed and the next again, or, for every *)
(* third endpoint, the one before it and the third after it.               *)
(***************************************************************************)
MaxPeers == 10

Peers == 1..MaxPeers
PeerAddress(k) == "10.0.0." \o ToString(k) \o ":6881"
PeerId(k) == IF k <= K_BUCKET_SIZE THEN 2 * (k - 1) ELSE 2 * (k - K_BUCKET_SIZE) - 1
PeerOf(address) == CHOOSE k \in Peers : PeerAddress(k) = address
Seed == PeerAddress(1)

Known(k) ==
    {<<k + 1, k + 2, k, 1, k + 1>>} \cup (IF k % 3 = 1 THEN {<<k - 1, k + 3>>} ELSE {})

Neighbours(known) ==
    LET inside == SelectSeq(known, LAMBDA n : n \in Peers)
    IN [i \in DOMAIN inside |-> NodeInfo(PeerId(inside[i]), PeerAddress(inside[i]))]

FindNodeResponse(k, known) == [id |-> PeerId(k), nodes |-> Neighbours(known)]

\* What LivenessTransport::find_node resolves to: None is an error (the
\* call timed out or could not be sent), Some the endpoint's response.
FindNodeResults(address) ==
    {None} \cup {Some(FindNodeResponse(PeerOf(address), known)) : known \in Known(PeerOf(address))}

NotBootstrapping ==
    [pc |-> "idle", address |-> "", nodes |-> <<>>, visited |-> {},
     next_node |-> None, response |-> None, queried |-> <<>>]

\* The head of the while loop: pop the front of the queue and send it
\* find_node, or leave the loop.  queried lists the endpoints find_node was
\* sent to.
bootstrap_loop(b) ==
    IF b.nodes = <<>>
    THEN [b EXCEPT !.pc = "done", !.next_node = None, !.response = None]
    ELSE [b EXCEPT !.pc = "find_node", !.next_node = Some(Head(b.nodes)),
                   !.nodes = Tail(b.nodes), !.response = None,
                   !.queried = Append(@, Head(b.nodes))]

\* The arm Err(err): the error is logged.
bootstrap_err_returns(b) == [b EXCEPT !.pc = "done", !.next_node = None]

bootstrap_err(b) == bootstrap_loop(b)

RECURSIVE bootstrap_for_unchecked(_, _)
bootstrap_for_unchecked(b, nodes) ==
    IF nodes = <<>> THEN b
    ELSE LET node == Head(nodes)
         IN bootstrap_for_unchecked([b EXCEPT !.visited = @ \cup {node.address},
                                              !.nodes = Append(@, node.address)],
                                    Tail(nodes))

\* for node in response.nodes
RECURSIVE bootstrap_for(_, _)
bootstrap_for(b, nodes) ==
    IF nodes = <<>> THEN b
    ELSE LET node == Head(nodes)
         IN bootstrap_for(IF node.address \notin b.visited
                          THEN [b EXCEPT !.visited = @ \cup {node.address},
                                         !.nodes = Append(@, node.address)]
                          ELSE b,
                          Tail(nodes))

\* The arm Ok(response) from the moment add_node has returned s.returned.
bootstrap_added(b, s, response, t) ==
    IF s.returned = None
    THEN [root |-> s.root,
          boot |-> [b EXCEPT !.pc = "done", !.next_node = None, !.response = None]]
    ELSE LET ref == Unwrap(s.returned)
             bucket == unwrap_as_leaf(s.root, ref.path)
             it == mark_successful_query(get_node_mut(s.root, ref), t)
         IN [root |-> replace_at(s.root, ref.path,
                                 Leaf([bucket EXCEPT !.contacts[ref.index] = it])),
             boot |-> bootstrap_loop(bootstrap_for(b, response.nodes))]

\* bootstrap up to its first find_node.
Bootstrap(address) ==
    /\ boot.pc = "idle"
    /\ add = None
    /\ boot' = bootstrap_loop([NotBootstrapping EXCEPT !.address = address,
                                                      !.nodes = <<address>>,
                                                      !.visited = {address}])
    /\ UNCHANGED <<root, now, owner_id, script, fresh, add, returned, probes, nEvents, lookup, contact>>
    /\ UNCHANGED txVars
    /\ UNCHANGED dhtVars

\* find_node resolved: the body of the loop up to the next find_node, the
\* probe add_node waits for, or the end of bootstrap.
FindNodeDone(result) ==
    /\ boot.pc = "find_node"
    /\ IF result = None
       THEN /\ nEvents < MaxEvents
            /\ nEvents' = nEvents + 1
            /\ boot' = bootstrap_err(boot)
            /\ UNCHANGED <<root, add, returned, probes>>
       ELSE LET response == Unwrap(result)
                s == add_node_rec(owner_id, root, <<>>,
                                  NodeInfo(response.id, boot.address), 0, now)
                r == bootstrap_added(boot, s, response, now)
            IN /\ nEvents' = nEvents
               /\ add' = s.add
               /\ returned' = s.returned
               /\ probes' = IF s.add # None THEN 1 ELSE 0
               /\ root' = IF s.add # None THEN s.root ELSE r.root
               /\ boot' = IF s.add # None
                          THEN [boot EXCEPT !.pc = "add_node", !.response = Some(response)]
                          ELSE r.boot
    /\ UNCHANGED <<now, owner_id, script, fresh, lookup, contact>>
    /\ UNCHANGED txVars
    /\ UNCHANGED dhtVars

\* The probe add_node waited for resolved, inside bootstrap.
BootstrapPingDone(response) ==
    /\ boot.pc = "add_node"
    /\ add # None
    /\ LET a == Unwrap(add)
           failed == ping_result(a.questionable_node, response) # "Ok"
           s == try_add_resume(owner_id, root, a, response, now)
           r == bootstrap_added(boot, s, Unwrap(boot.response), now)
       IN /\ failed => nEvents < MaxEvents
          /\ nEvents' = IF failed THEN nEvents + 1 ELSE nEvents
          /\ add' = s.add
          /\ returned' = s.returned
          /\ probes' = IF s.add # None THEN probes + 1 ELSE probes
          /\ root' = IF s.add # None THEN s.root ELSE r.root
          /\ boot' = IF s.add # None THEN boot ELSE r.boot
    /\ UNCHANGED <<now, owner_id, script, fresh, lookup, contact>>
    /\ UNCHANGED txVars
    /\ UNCHANGED dhtVars

(***************************************************************************)
(* dht_crawler/routing/token_validator.rs                                  *)
(***************************************************************************)
\* The secrets rand::random() draws: [u8; 4] in the program.
Secrets == 0..(MaxSecret - 1)

SocketAddrV4(ip, port) == [ip |-> ip, port |-> port]

\* write_to: the four octets of the address, then the port in network order.
addr_to_bytes(addr) == to_be_bytes(addr.ip) \o <<addr.port \div 256, addr.port % 256>>

\* The SHA-1 digest of the input, taken to be free of collisions.
Sha1(input) == [sha1 |-> input]

generate_token_with(addr, secret) == Sha1(addr_to_bytes(addr) \o to_be_bytes(secret))

TokenValidator(token_secret, last_token_secret) ==
    [token_secret |-> token_secret, last_token_secret |-> last_token_secret]

generate_token(v, addr) == generate_token_with(addr, v.token_secret)

verify_token(v, addr, tok) ==
    \/ generate_token_with(addr, v.token_secret) = tok
    \/ generate_token_with(addr, v.last_token_secret) = tok

rotate_tokens(v, new_secret) == TokenValidator(new_secret, v.token_secret)

SenderEndpoints == {SocketAddrV4(167772161, 6881), SocketAddrV4(167772162, 51413)}

(***************************************************************************)
(* dht_crawler/routing/node.rs, bucket.rs and table.rs: the table of the   *)
(* query handler.                                                          *)
(***************************************************************************)
Node_new(id, address) ==
    [id |-> id, address |-> address, last_request_to |-> None,
     last_request_from |-> None, failed_requests |-> 0]

mark_successful_request_from(node, t) == [node EXCEPT !.last_request_from = Some(t)]

Node_state(node, t) ==
    IF node.failed_requests >= BadFailedQueries THEN "Bad"
    ELSE IF /\ node.last_request_from # None
            /\ node.last_request_to # None
            /\ t - Unwrap(node.last_request_from) < GoodMinutes
         THEN "Good"
    ELSE IF /\ node.last_request_to # None
            /\ t - Unwrap(node.last_request_to) < GoodMinutes
         THEN "Good"
    ELSE "Questionable"

Bucket(start, end, nodes) == [start |-> start, end |-> end, nodes |-> nodes]
initial_bucket == Bucket(0, 2^NODE_ID_SIZE_BITS, <<>>)

could_hold_node(bucket, id) == id >= bucket.start /\ id < bucket.end

\* Bucket::get and get_mut: Option of the index of the first node with id.
Bucket_get(bucket, id) ==
    LET found == {i \in DOMAIN bucket.nodes : bucket.nodes[i].id = id}
    IN IF found = {} THEN None ELSE Some(First(found))

Bucket_good_nodes(bucket, t) ==
    LET good == SelectSeq(bucket.nodes, LAMBDA node : Node_state(node, t) = "Good")
    IN [i \in DOMAIN good |-> NodeInfo(good[i].id, good[i].address)]

\* Bucket::add_node, called for a node the bucket can hold.
Bucket_add_node(bucket, node, t) ==
    LET bad == {i \in DOMAIN bucket.nodes : Node_state(bucket.nodes[i], t) = "Bad"}
    IN IF Len(bucket.nodes) < K_BUCKET_SIZE
       THEN [bucket EXCEPT !.nodes = Append(@, node)]
       ELSE IF bad # {} THEN [bucket EXCEPT !.nodes[First(bad)] = node]
       ELSE bucket

\* binary_search_by over buckets that cover the key space in order.
get_bucket_idx(bs, id) == CHOOSE i \in DOMAIN bs : could_hold_node(bs[i], id)

\* RoutingTable::get_or_add: the table after it, and the Option of the
\* place (bucket, index) of the node it returns.
get_or_add(bs, id, address, t) ==
    LET bucket_idx == get_bucket_idx(bs, id)
        bucket == IF Bucket_get(bs[bucket_idx], id) = None
                  THEN Bucket_add_node(bs[bucket_idx], Node_new(id, address), t)
                  ELSE bs[bucket_idx]
        at == Bucket_get(bucket, id)
    IN [buckets |-> [bs EXCEPT ![bucket_idx] = bucket],
        node |-> IF at = None THEN None ELSE Some(<<bucket_idx, Unwrap(at)>>)]

Table_find_node(bs, id, t) ==
    LET bucket == bs[get_bucket_idx(bs, id)]
        at == Bucket_get(bucket, id)
    IN IF at = None THEN FindNodeResult_Nodes(Bucket_good_nodes(bucket, t))
       ELSE FindNodeResult_Node(NodeInfo(bucket.nodes[Unwrap(at)].id,
                                         bucket.nodes[Unwrap(at)].address))

find_nodes(bs, id, t) == Bucket_good_nodes(bs[get_bucket_idx(bs, id)], t)

\* Node::mark_successful_request
Node_mark_successful_request(node, t) ==
    [node EXCEPT !.failed_requests = 0, !.last_request_to = Some(t)]

\* The closure get_bucket_idx hands to binary_search_by.
bucket_cmp(bucket, id) ==
    IF could_hold_node(bucket, id) THEN "Equal"
    ELSE IF bucket.start < id THEN "Less"
    ELSE IF bucket.start > id THEN "Greater"
    ELSE "Equal"

\* binary_search_by: when several elements compare Equal any one of them may
\* be returned; which one depends on the library the build links.
binary_search_by(bs, id) == {i \in DOMAIN bs : bucket_cmp(bs[i], id) = "Equal"}

midpoint(bucket) == bucket.start + (bucket.end - bucket.start) \div 2

\* Bucket::split: the bucket as it is left, and the bucket returned.
Bucket_split(bucket) ==
    LET previous == Bucket(bucket.start, midpoint(bucket), <<>>)
    IN <<[previous EXCEPT !.nodes =
             SelectSeq(bucket.nodes, LAMBDA node : could_hold_node(previous, node.id))],
         Bucket(midpoint(bucket), bucket.end,
                SelectSeq(bucket.nodes, LAMBDA node : ~could_hold_node(previous, node.id)))>>

is_full(bucket, t) == Len(Bucket_good_nodes(bucket, t)) >= K_BUCKET_SIZE

\* split_bucket: the halves are at idx and idx + 1.
split_bucket(bs, idx) ==
    SubSeq(bs, 1, idx - 1) \o Bucket_split(bs[idx]) \o SubSeq(bs, idx + 1, Len(bs))

\* RoutingTable::add_node from the index get_bucket_idx returned on.
\* panicked: Bucket::add_node was called on a bucket that cannot hold the
\* node.
Table_add_node(bs, bucket_idx, node, t) ==
    LET full == is_full(bs[bucket_idx], t)
        split_ == IF full THEN split_bucket(bs, bucket_idx) ELSE bs
        bucket_to_add_to_idx ==
            IF full /\ ~could_hold_node(split_[bucket_idx], node.id)
            THEN bucket_idx + 1 ELSE bucket_idx
    IN IF full /\ ~could_hold_node(bs[bucket_idx], node.id)
       THEN [buckets |-> bs, panicked |-> FALSE]
       ELSE IF ~could_hold_node(split_[bucket_to_add_to_idx], node.id)
       THEN [buckets |-> split_, panicked |-> TRUE]
       ELSE [buckets |-> [split_ EXCEPT ![bucket_to_add_to_idx] = Bucket_add_node(@, node, t)],
             panicked |-> FALSE]

\* RoutingTable::get_or_add from the index get_bucket_idx returned on.
Table_get_or_add(bs, bucket_idx, id, address, t) ==
    IF Bucket_get(bs[bucket_idx], id) = None /\ ~could_hold_node(bs[bucket_idx], id)
    THEN [buckets |-> bs, panicked |-> TRUE]
    ELSE [buckets |-> [bs EXCEPT ![bucket_idx] =
                          IF Bucket_get(@, id) = None
                          THEN Bucket_add_node(@, Node_new(id, address), t) ELSE @],
          panicked |-> FALSE]

\* A validator whose draws both gave the first secret, no token out, the
\* table of RoutingTable::new, no torrent and nothing sent.
IdleDht ==
    /\ token_validator = TokenValidator(First(Secrets), First(Secrets))
    /\ issued = {}
    /\ buckets = <<initial_bucket>>
    /\ torrents = <<>>
    /\ sent = <<>>
    /\ inbound = None
    /\ codec = None

GenerateToken(addr) ==
    /\ Cardinality(issued) < MaxIssued
    /\ issued' = issued \cup {[addr |-> addr, token |-> generate_token(token_validator, addr),
                                rotations |-> 0]}
    /\ UNCHANGED <<token_validator, buckets, torrents, sent, inbound, codec>>
    /\ UNCHANGED <<txVars, rtVars>>

RotateTokens(new_secret) ==
    /\ \A i \in issued : i.rotations < MaxRotations
    /\ token_validator' = rotate_tokens(token_validator, new_secret)
    /\ issued' = {[i EXCEPT !.rotations = @ + 1] : i \in issued}
    /\ UNCHANGED <<buckets, torrents, sent, inbound, codec>>
    /\ UNCHANGED <<txVars, rtVars>>

(***************************************************************************)
(* src/dht/handler.rs and errors.rs: the query handler.                    *)
(***************************************************************************)
Ping(id) == [q |-> "ping", id |-> id]
FindNodeQuery(id, target) == [q |-> "find_node", id |-> id, target |-> target]
GetPeers(id, info_hash) == [q |-> "get_peers", id |-> id, info_hash |-> info_hash]
AnnouncePeer(id, implied_port, port, info_hash, tok) ==
    [q |-> "announce_peer", id |-> id, implied_port |-> implied_port, port |-> port,
     info_hash |-> info_hash, token |-> tok]
SampleInfoHashes(id, target) == [q |-> "sample_infohashes", id |-> id, target |-> target]

Request(transaction_id, query, read_only) ==
    [transaction_id |-> transaction_id, query |-> query, read_only |-> read_only]

OnlyId(id) == [kind |-> "OnlyId", id |-> id]
NextHop(id, tok, nodes) == [kind |-> "NextHop", id |-> id, token |-> tok, nodes |-> nodes]
GetPeersResponse(id, tok, peers) ==
    [kind |-> "GetPeers", id |-> id, token |-> tok, peers |-> peers]

Ok(response) == [ok |-> TRUE, response |-> response]
Err(kind) == [ok |-> FALSE, err |-> kind]

ProtocolError(code, message) == [code |-> code, message |-> message]

as_request_error(kind) ==
    CASE kind = "UnimplementedRequestType" -> ProtocolError(204, "Unimplemented")
      [] kind = "InvalidToken" -> ProtocolError(203, "Invalid Token")
      [] kind = "InsufficientAddress" ->
            ProtocolError(203, "Not enough address info provided")
      [] OTHER -> ProtocolError(202, "Server Error")

\* The Dht the handler works on, and what a handler leaves of it.
Dht(id, validator, bs, ts) ==
    [id |-> id, token_validator |-> validator, buckets |-> bs, torrents |-> ts]
Handled(result, bs, ts) == [result |-> result, buckets |-> bs, torrents |-> ts]

\* .map(|node| node.mark_successful_request_from()) on what get_or_add gave.
mark_returned(r, t) ==
    IF r.node = None THEN r.buckets
    ELSE [r.buckets EXCEPT ![Unwrap(r.node)[1]].nodes[Unwrap(r.node)[2]] =
             mark_successful_request_from(@, t)]

record_request(bs, id, from, read_only, t) ==
    IF ~read_only THEN mark_returned(get_or_add(bs, id, from, t), t) ELSE bs

handle_ping(dht, from, id, read_only, t) ==
    Handled(Ok(OnlyId(dht.id)), record_request(dht.buckets, id, from, read_only, t),
            dht.torrents)

handle_find_node(dht, from, id, target, read_only, t) ==
    LET bs == record_request(dht.buckets, id, from, read_only, t)
        found == Table_find_node(bs, target, t)
        nodes == IF found.kind = "Node" THEN <<found.node>> ELSE found.nodes
    IN Handled(Ok(NextHop(dht.id, None, nodes)), bs, dht.torrents)

handle_get_peers(dht, from, id, info_hash, read_only, t) ==
    LET bs == record_request(dht.buckets, id, from, read_only, t)
        tok == Some(generate_token(dht.token_validator, from))
    IN IF info_hash \in DOMAIN dht.torrents
       THEN Handled(Ok(GetPeersResponse(dht.id, tok, dht.torrents[info_hash])), bs,
                    dht.torrents)
       ELSE Handled(Ok(NextHop(dht.id, tok, find_nodes(bs, info_hash, t))), bs, dht.torrents)

set_port(addr, port) == [addr EXCEPT !.port = port]

push_peer_once(ts, info_hash, addr) ==
    [k \in DOMAIN ts \cup {info_hash} |->
        IF k # info_hash THEN ts[k]
        ELSE IF info_hash \notin DOMAIN ts THEN <<addr>>
        ELSE IF \E i \in DOMAIN ts[info_hash] : ts[info_hash][i] = addr THEN ts[info_hash]
        ELSE Append(ts[info_hash], addr)]

\* entry(info_hash).or_insert_with(Vec::new).push(addr)
push_peer(ts, info_hash, addr) ==
    [k \in DOMAIN ts \cup {info_hash} |->
        IF k = info_hash
        THEN Append(IF info_hash \in DOMAIN ts THEN ts[info_hash] ELSE <<>>, addr)
        ELSE ts[k]]

handle_announce_peer_unverified(dht, from, id, implied_port, port, info_hash, tok, read_only, t) ==
    IF ~implied_port /\ port = None
    THEN Handled(Err("InsufficientAddress"), dht.buckets, dht.torrents)
    ELSE LET addr == IF implied_port THEN from ELSE set_port(from, Unwrap(port))
         IN Handled(Ok(OnlyId(dht.id)),
                    record_request(dht.buckets, id, addr, read_only, t),
                    push_peer(dht.torrents, info_hash, addr))

handle_announce_peer(dht, from, id, implied_port, port, info_hash, tok, read_only, t) ==
    IF ~verify_token(dht.token_validator, from, tok)
    THEN Handled(Err("InvalidToken"), dht.buckets, dht.torrents)
    ELSE IF ~implied_port /\ port = None
    THEN Handled(Err("InsufficientAddress"), dht.buckets, dht.torrents)
    ELSE LET addr == IF implied_port THEN from ELSE set_port(from, Unwrap(port))
         IN Handled(Ok(OnlyId(dht.id)),
                    record_request(dht.buckets, id, addr, read_only, t),
                    push_peer(dht.torrents, info_hash, addr))

\* Message with a transaction id of the handler's own instead of the query's.
Message_own_transaction(transaction_id, message_type, read_only) ==
    [ip |-> None, transaction_id |-> <<>>, version |-> None,
     message_type |-> message_type, read_only |-> read_only]

Message(transaction_id, message_type, read_only) ==
    [ip |-> None, transaction_id |-> transaction_id, version |-> None,
     message_type |-> message_type, read_only |-> read_only]

\* The handler handle_request chooses for the query.
dispatch(dht, request, from, t) ==
    CASE request.query.q = "ping" ->
            handle_ping(dht, from, request.query.id, request.read_only, t)
      [] request.query.q = "find_node" ->
            handle_find_node(dht, from, request.query.id, request.query.target,
                             request.read_only, t)
      [] request.query.q = "get_peers" ->
            handle_get_peers(dht, from, request.query.id, request.query.info_hash,
                             request.read_only, t)
      [] request.query.q = "announce_peer" ->
            handle_announce_peer(dht, from, request.query.id, request.query.implied_port,
                                 request.query.port, request.query.info_hash,
                                 request.query.token, request.read_only, t)
      [] OTHER -> Handled(Err("UnimplementedRequestType"), dht.buckets, dht.torrents)

\* match result: MessageType::Response or MessageType::Error
message_type_of(result) ==
    IF result.ok THEN [y |-> "r", response |-> result.response]
    ELSE [y |-> "e", error |-> as_request_error(result.err)]

\* The reply to the request, with what the handler left of the Dht.
reply_to(request, h) ==
    [message |-> Message(request.transaction_id, message_type_of(h.result), FALSE),
     buckets |-> h.buckets, torrents |-> h.torrents]

\* handle_request: the reply, and what the handler it chose left of the Dht.
handle_request(dht, request, from, t) == reply_to(request, dispatch(dht, request, from, t))

\* What the request stream yields: a failed item, or a request and the
\* address it came from, which is an IPv4 or an IPv6 one.
V4(addr) == [v4 |-> TRUE, addr |-> addr]
\* [::1]:6881
V6Sender == [v4 |-> FALSE, addr |-> [ip |-> 1, port |-> 6881]]
StreamErr == [ok |-> FALSE]
StreamOk(request, from) == [ok |-> TRUE, request |-> request, from |-> from]

\* What handle_request left of the Dht is kept, and its reply is sent.
Handle(from, h) ==
    /\ buckets' = h.buckets
    /\ torrents' = h.torrents
    /\ sent' = Append(sent, [to |-> from, message |-> h.message])

\* process_request: `result?`, into_v4()?, handle_request, then send.
ProcessRequest(result) ==
    /\ Len(sent) < MaxQueries
    /\ inbound' = Some(result)
    /\ IF result.ok /\ result.from.v4
       THEN Handle(result.from,
                   handle_request(Dht(owner_id, token_validator, buckets, torrents),
                                  result.request, result.from.addr, now))
       ELSE UNCHANGED <<buckets, torrents, sent>>
    /\ UNCHANGED <<token_validator, issued, codec>>
    /\ UNCHANGED <<txVars, rtVars>>

(***************************************************************************)
(* The transport: KRPCNode::new and serve, then the calls, the remote      *)
(* side and the inbound stream interleave freely.                          *)
(***************************************************************************)
InitTransport ==
    /\ transactions = <<>>
    /\ pc = [r \in Reqs |-> "idle"]
    /\ call = [r \in Reqs |-> None]
    /\ token = [r \in Reqs |-> None]
    /\ woken = {}
    /\ outcome = [r \in Reqs |-> None]
    /\ wire = {}
    /\ net = {}
    /\ nDatagrams = 0
    /\ lastRecv = None
    /\ streamFailed = FALSE
    /\ streamDone = FALSE

\* RoutingTable::new
InitRouting ==
    /\ root = Leaf(initial)
    /\ now = 0
    /\ fresh = 0
    /\ add = None
    /\ returned = None
    /\ probes = 0
    /\ nEvents = 0
    /\ lookup = None
    /\ boot = NotBootstrapping
    /\ contact = None

\* The transport on its own has a table that nothing adds to.
Init ==
    /\ InitTransport
    /\ IdleDht
    /\ InitRouting
    /\ owner_id = First(Owners)
    /\ script = Ascending

InitTable ==
    /\ InitTransport
    /\ IdleDht
    /\ InitRouting
    /\ owner_id \in Owners
    /\ script \in Scripts

\* What the remote side, the inbound stream and the started calls do.
NextRest ==
    \/ \E r \in Reqs : Send(r)
    \/ \E r \in Reqs : SendFail(r)
    \/ \E r \in Reqs : Register(r)
    \/ \E r \in Reqs : Poll(r)
    \/ \E r \in Reqs : Finish(r)
    \/ \E r \in Reqs : Timeout(r)
    \/ \E r \in Reqs : Cancel(r)
    \/ \E r \in Reqs, y \in {"r", "e"} : RemoteReply(r, y)
    \/ \E tid \in StrayTransactionIds : RemoteStray(StrayEndpoint, TRUE, tid, "r")
    \/ RemoteStray(StrayEndpoint, TRUE, <<7>>, "q")
    \/ RemoteStray(StrayEndpoint, FALSE, <<>>, "q")
    \/ \E d \in net : Recv(d)
    \/ RecvIoError

NextTransport ==
    \/ \E r \in Reqs, c \in PingCalls, to \in Endpoints, t \in Tokens : Start(r, c, to, t)
    \/ NextRest

SpecTransport == Init /\ [][NextTransport]_vars

\* Every typed operation of both layers, one call at a time.
NextCalls ==
    \/ \E c \in Calls, to \in Endpoints, t \in Tokens : Start(1, c, to, t)
    \/ NextRest

SpecCalls == Init /\ [][NextCalls]_vars

\* What the runtime guarantees once a call is under way: a send that can
\* complete does, a task that can register or finish does, a woken task is
\* polled, an armed timer fires, a readable socket is read.  Nothing obliges
\* the remote side to answer or the caller to drop the call.
FairCalls ==
    /\ SpecCalls
    /\ \A r \in Reqs :
          /\ WF_vars(Send(r))
          /\ WF_vars(Register(r))
          /\ WF_vars(r \in woken /\ Poll(r))
          /\ WF_vars(Finish(r))
          /\ WF_vars(Timeout(r))
    /\ WF_vars(\E d \in net : Recv(d))

\* The routing table on its own: a caller adds nodes and marks the contacts
\* it gets back, probes are answered or not, the clock advances.
NextRouting ==
    \/ \E id \in NodeIDs : AddNode(NodeInfo(id, ProbeAddress))
    \/ /\ add # None
       /\ \E response \in PingResponses(Unwrap(add).questionable_node) : PingDone(response)
    \/ \E m \in Marks : Mark(m)
    \/ \E d \in TickMinutes : Tick(d)

SpecRouting == InitTable /\ [][NextRouting]_vars

\* One add_node after another on a table whose bucket is full: eight
\* add_node calls have stored the first eight ids of the script.  A probe
\* resolves within TIMEOUT_SECONDS, one second, so the minute the clock
\* shows stays far from the fifteen that make a contact Questionable again.
MaxFailedProbes == 9     \* probes that fail

InitProbing ==
    /\ InitTransport
    /\ IdleDht
    /\ owner_id = First(Owners)
    /\ script = Ascending
    /\ root = Leaf(KBucket([i \in 1..K_BUCKET_SIZE |->
                               NodeContactState_new(script[i], ProbeAddress)], "Near"))
    /\ now = 0
    /\ fresh = K_BUCKET_SIZE
    /\ add = None
    /\ returned = Some([path |-> <<>>, index |-> K_BUCKET_SIZE])
    /\ probes = 0
    /\ nEvents = 0
    /\ lookup = None
    /\ boot = NotBootstrapping
    /\ contact = None

ProbeResolves ==
    /\ add # None
    /\ \E response \in PingResponses(Unwrap(add).questionable_node) :
          PingDoneWithin(response, MaxFailedProbes)

\* The caller goes on with the ids of its script that are not stored yet.
ProbingIds == {script[i] : i \in (K_BUCKET_SIZE + 1)..MaxContacts}

NextProbing ==
    \/ \E id \in ProbingIds : AddNode(NodeInfo(id, ProbeAddress))
    \/ ProbeResolves

SpecProbing == InitProbing /\ [][NextProbing]_vars

\* The probe add_node waits for has resolved.
ProbeResolved == add # None /\ (add' # add \/ probes' # probes)

\* Every probe resolves: with a reply, or with the timeout of
\* LivenessTransport::ping.  This is WF_vars(ProbeResolves), written out
\* with what enables such a step: add_node waiting for a probe.
FairProbing ==
    /\ SpecProbing
    /\ \/ []<>(add = None)
       \/ []<><<ProbeResolved>>_vars

\* A table whose first eight contacts go to one side at the first two splits.
InitFar ==
    /\ InitTransport
    /\ IdleDht
    /\ InitRouting
    /\ owner_id \in Owners
    /\ script = LowBitsSet

SpecFar == InitFar /\ [][NextRouting]_vars

\* A table whose owner id has only its top bit set, and a caller that adds
\* ids which have that bit set and looks ids up.
TopBit == 2^(NODE_ID_SIZE_BITS - 1)
WithTopBit(ids) == [i \in DOMAIN ids |-> ids[i] + TopBit]

InitLookup ==
    /\ InitTransport
    /\ IdleDht
    /\ InitRouting
    /\ owner_id = TopBit
    /\ script = WithTopBit(EvensFirst)

NextLookup ==
    \/ lookup = None /\ NextRouting
    \/ \E id \in LookupIds : FindNode(id)
    \/ DropResult

SpecLookup == InitLookup /\ [][NextLookup]_vars

\* bootstrap on a new table: it holds the table until it returns, the
\* endpoints answer or not, the clock advances.
InitBootstrap ==
    /\ InitTransport
    /\ IdleDht
    /\ InitRouting
    /\ owner_id \in Owners
    /\ script = Ascending

NextBootstrap ==
    \/ Bootstrap(Seed)
    \/ /\ boot.pc = "find_node"
       /\ \E result \in FindNodeResults(Unwrap(boot.next_node)) : FindNodeDone(result)
    \/ /\ add # None
       /\ \E response \in PingResponses(Unwrap(add).questionable_node) :
             BootstrapPingDone(response)
    \/ \E d \in TickMinutes : Tick(d)

SpecBootstrap == InitBootstrap /\ [][NextBootstrap]_vars

\* A call bootstrap waits for has resolved: find_node, or the probe of
\* add_node.
Resolved ==
    /\ boot.pc \in {"find_node", "add_node"}
    /\ boot' # boot \/ add' # add \/ probes' # probes

\* Both calls go through LivenessTransport, which gives each of them
\* TIMEOUT_SECONDS: they resolve.  This is WF_vars(Resolved), written out
\* with what enables such a step: bootstrap waiting for one of the calls.
FairBootstrap ==
    /\ SpecBootstrap
    /\ \/ []<>(boot.pc \notin {"find_node", "add_node"})
       \/ []<><<Resolved>>_vars

\* A contact on its own: its holder marks it and the clock advances.
ContactMark(m) ==
    /\ contact # None
    /\ LET c == Unwrap(contact)
       IN contact' \in
            CASE m = "mark_successful_query" -> {Some(mark_successful_query(c, now))}
              [] m = "mark_failed_query" ->
                    {Some(mark_failed_query(c))}
                        \cup (IF c.failed_queries = 2^8 - 1 THEN {contact} ELSE {})
              [] m = "mark_successful_request" -> {Some(mark_successful_request(c, now))}
    /\ UNCHANGED <<root, now, owner_id, script, fresh, add, returned, probes, nEvents, lookup,
                   boot>>
    /\ UNCHANGED txVars
    /\ UNCHANGED dhtVars

ContactTick(d) ==
    /\ contact # None
    /\ now + d <= MaxNow
    /\ now' = now + d
    /\ UNCHANGED <<root, owner_id, script, fresh, add, returned, probes, nEvents, lookup, boot,
                   contact>>
    /\ UNCHANGED txVars
    /\ UNCHANGED dhtVars

\* NodeContactState::new, as make_node of the tests calls it.
InitContact ==
    /\ InitTransport
    /\ IdleDht
    /\ root = Leaf(initial)
    /\ now = 0
    /\ owner_id = First(Owners)
    /\ script = Ascending
    /\ fresh = 0
    /\ add = None
    /\ returned = None
    /\ probes = 0
    /\ nEvents = 0
    /\ lookup = None
    /\ boot = NotBootstrapping
    /\ contact = Some(NodeContactState_new(First(NodeIDs), ProbeAddress))

\* A few failed queries, with the clock running.
NextContact ==
    \/ \E m \in Marks :
          /\ m = "mark_failed_query" => \A c \in contact : c.failed_queries < MaxFailedQueries
          /\ ContactMark(m)
    \/ \E d \in TickMinutes : ContactTick(d)

SpecContact == InitContact /\ [][NextContact]_vars

\* Any number of failed queries, within one minute.
NextFailures == \E m \in Marks : ContactMark(m)

SpecFailures == InitContact /\ [][NextFailures]_vars

\* TokenValidator::new, then tokens are generated and the secrets rotated.
InitTokens ==
    /\ InitTransport
    /\ InitRouting
    /\ owner_id = First(Owners)
    /\ script = Ascending
    /\ \E s, l \in Secrets : token_validator = TokenValidator(s, l)
    /\ issued = {}
    /\ buckets = <<initial_bucket>>
    /\ torrents = <<>>
    /\ sent = <<>>
    /\ inbound = None
    /\ codec = None

NextTokens ==
    \/ \E addr \in SenderEndpoints : GenerateToken(addr)
    \/ \E new_secret \in Secrets : RotateTokens(new_secret)

SpecTokens == InitTokens /\ [][NextTokens]_vars

\* What remote nodes send to the handler.  A remote node has an id and an
\* endpoint, and numbers its queries its own way: "aa", or four bytes.
SenderIds == {1, 2}
TransactionIdOf(id) == IF id = First(SenderIds) THEN <<97, 97>> ELSE to_be_bytes(id)
TokenHolder == CHOOSE addr \in SenderEndpoints : addr.port = 6881
EndpointOf(id) ==
    IF id = First(SenderIds) THEN TokenHolder
    ELSE CHOOSE addr \in SenderEndpoints : addr # TokenHolder
InfoHashes == {3, 4}
AnnouncedPorts == {None, Some(6882)}
\* A 20-byte string that is no digest of the validator's.
BogusToken == Sha1(<<>>)
\* The tokens announces carry: the one the first node was given before any
\* rotation, and the bogus one.
AnnounceTokens == {generate_token_with(TokenHolder, First(Secrets)), BogusToken}
\* The first node sends every kind of query; the other one pings, and
\* announces with the token of the first.
Queries ==
    LET id == First(SenderIds)
    IN {Ping(id), FindNodeQuery(id, id), GetPeers(id, First(InfoHashes)),
        SampleInfoHashes(id, id)}
           \cup {AnnouncePeer(id, implied_port, port, info_hash, tok) :
                    implied_port \in BOOLEAN, port \in AnnouncedPorts,
                    info_hash \in InfoHashes, tok \in AnnounceTokens}
           \cup {Ping(other) : other \in SenderIds}
           \cup {AnnouncePeer(other, TRUE, None, First(InfoHashes),
                              generate_token_with(TokenHolder, First(Secrets))) :
                    other \in SenderIds}
Requests ==
    {Request(TransactionIdOf(query.id), query, read_only) :
        query \in Queries, read_only \in BOOLEAN}
StreamItems ==
    {StreamErr}
        \cup {StreamOk(request, V4(EndpointOf(request.query.id))) : request \in Requests}
        \cup {StreamOk(Request(TransactionIdOf(id), Ping(id), FALSE), V6Sender) :
                 id \in SenderIds}

\* Dht::start, then handle_requests serves the stream while the secrets are
\* rotated and the clock advances.
InitHandler == Init

NextHandler ==
    \/ \E result \in StreamItems : ProcessRequest(result)
    \/ \E new_secret \in Secrets : RotateTokens(new_secret)
    \/ Tick(First(TickMinutes))

SpecHandler == InitHandler /\ [][NextHandler]_vars

(***************************************************************************)
(* The table of the query handler under its two writers: discover_nodes_of *)
(* adds the node that answered find_node, marked as queried with success,  *)
(* and the handler records the sender of a request.  Peers choose the ids  *)
(* they answer with.                                                       *)
(***************************************************************************)
MaxBuckets == 8          \* buckets the table is followed to
TableIds == {5, 20}

\* What the last call on the table was and how it ended.
TableCall(name, id, bucket_idx, panicked) ==
    [call |-> name, id |-> id, bucket_idx |-> bucket_idx, panicked |-> panicked]

TablePanicked == inbound # None /\ Unwrap(inbound).panicked

\* dht/mod.rs, discover_nodes_of: routing_table.add_node(node).
DiscoverNode(id) ==
    /\ ~TablePanicked
    /\ Len(buckets) < MaxBuckets
    /\ \E bucket_idx \in binary_search_by(buckets, id) :
          LET r == Table_add_node(buckets, bucket_idx,
                                  Node_mark_successful_request(Node_new(id, TokenHolder), now),
                                  now)
          IN /\ buckets' = r.buckets
             /\ inbound' = Some(TableCall("add_node", id, bucket_idx, r.panicked))
    /\ UNCHANGED <<token_validator, issued, torrents, sent, codec>>
    /\ UNCHANGED <<txVars, rtVars>>

\* handler.rs, record_request: routing_table.get_or_add(id, from).
RecordRequest(id) ==
    /\ ~TablePanicked
    /\ \E bucket_idx \in binary_search_by(buckets, id) :
          LET r == Table_get_or_add(buckets, bucket_idx, id, TokenHolder, now)
          IN /\ buckets' = r.buckets
             /\ inbound' = Some(TableCall("get_or_add", id, bucket_idx, r.panicked))
    /\ UNCHANGED <<token_validator, issued, torrents, sent, codec>>
    /\ UNCHANGED <<txVars, rtVars>>

NextTable ==
    \/ \E id \in TableIds : DiscoverNode(id)
    \/ \E id \in TableIds : RecordRequest(id)

SpecTable == Init /\ [][NextTable]_vars

(***************************************************************************)
(* krpc_encoding/node_id.rs: a node id and its form on the wire.           *)
(***************************************************************************)
IdBytes == 3   \* bytes of a node id on the wire (20 in the program)
\* The byte values ids are built from.
ByteValues == {0, 1, 139, 255}
WireIds == [1..IdBytes -> ByteValues]

\* BigUint::from_bytes_be
RECURSIVE from_bytes_be(_)
from_bytes_be(bytes) ==
    IF bytes = <<>> THEN 0
    ELSE 256 * from_bytes_be(SubSeq(bytes, 1, Len(bytes) - 1)) + bytes[Len(bytes)]

\* BigUint::to_bytes_be: the digits without leading zeros, one zero for 0.
RECURSIVE to_bytes_be(_)
to_bytes_be(n) ==
    IF n < 256 THEN <<n>> ELSE Append(to_bytes_be(n \div 256), n % 256)

\* Vec::resize
resize(bytes, new_len, value) ==
    [i \in 1..new_len |-> IF i <= Len(bytes) THEN bytes[i] ELSE value]

from_bytes(bytes) == from_bytes_be(bytes)

as_bytes(id) == resize(to_bytes_be(id), IdBytes, 0)

Decoded(value) == [ok |-> TRUE, value |-> value]
DecodeError(reason) == [ok |-> FALSE, reason |-> reason]

\* NodeIDVisitor::visit_bytes
visit_bytes(v) ==
    IF Len(v) # IdBytes THEN DecodeError("invalid_length") ELSE Decoded(from_bytes(v))

\* A caller builds an id from the bytes of a datagram, asks for its bits,
\* serializes it and deserializes what it serialized.
Held(wire_bytes) ==
    [wire |-> wire_bytes, id |-> from_bytes(wire_bytes), bit |-> None,
     bytes |-> None, decoded |-> None]

AskBit(n) ==
    /\ codec # None
    /\ codec' = {[c EXCEPT !.bit = Some([n |-> n, value |-> nth_bit(c.id, n)])] : c \in codec}
    /\ UNCHANGED <<token_validator, issued, buckets, torrents, sent, inbound>>
    /\ UNCHANGED <<txVars, rtVars>>

SerializeId ==
    /\ codec # None
    /\ Unwrap(codec).bytes = None
    /\ codec' = {[c EXCEPT !.bytes = Some(as_bytes(c.id))] : c \in codec}
    /\ UNCHANGED <<token_validator, issued, buckets, torrents, sent, inbound>>
    /\ UNCHANGED <<txVars, rtVars>>

DeserializeId ==
    /\ codec # None
    /\ Unwrap(codec).bytes # None
    /\ Unwrap(codec).decoded = None
    /\ codec' = {[c EXCEPT !.decoded = Some(visit_bytes(Unwrap(c.bytes)))] : c \in codec}
    /\ UNCHANGED <<token_validator, issued, buckets, torrents, sent, inbound>>
    /\ UNCHANGED <<txVars, rtVars>>

\* Everything but the codecs' caller at rest.
IdleBut ==
    /\ InitTransport
    /\ InitRouting
    /\ owner_id = First(Owners)
    /\ script = Ascending
    /\ token_validator = TokenValidator(First(Secrets), First(Secrets))
    /\ issued = {}
    /\ buckets = <<initial_bucket>>
    /\ torrents = <<>>
    /\ sent = <<>>
    /\ inbound = None

InitNodeID ==
    /\ IdleBut
    /\ \E wire_bytes \in WireIds : codec = Some(Held(wire_bytes))

NextNodeID ==
    \/ \E n \in 0..(8 * IdBytes - 1) : AskBit(n)
    \/ SerializeId
    \/ DeserializeId

SpecNodeID == InitNodeID /\ [][NextNodeID]_vars

(***************************************************************************)
(* krpc_protocol/messages.rs with proto/addr.rs, proto/booleans.rs and     *)
(* proto/node_info.rs: the envelope and the bencode dictionary serde       *)
(* writes it as and reads it from.  A dictionary is a function from its    *)
(* keys; a byte string and a list are sequences; an integer is itself.     *)
(***************************************************************************)
Samples(id, interval, nodes, num, samples) ==
    [kind |-> "Samples", id |-> id, interval |-> interval, nodes |-> nodes, num |-> num,
     samples |-> samples]

\* serde_bencode leaves a field whose value is None out of the dictionary.
NoField == <<>>
OptField(name, option) == IF option = None THEN NoField ELSE name :> Unwrap(option)
HasField(d, name) == name \in DOMAIN d
FieldOr(d, name) == IF name \in DOMAIN d THEN Some(d[name]) ELSE None

\* addr::from_bytes
addr_from_bytes(v) == SocketAddrV4(read_u32_be(v), v[5] * 256 + v[6])

\* Deserialize for Addr
Addr_visit_bytes(v) ==
    IF Len(v) # 6 THEN DecodeError("invalid_length") ELSE Decoded(addr_from_bytes(v))

NodeInfoBytes == IdBytes + 6   \* 26 in the program

NodeInfo_to_bytes(info) == as_bytes(info.node_id) \o addr_to_bytes(info.address)

NodeInfo_from_bytes(bytes) ==
    NodeInfo(from_bytes(SubSeq(bytes, 1, IdBytes)),
             addr_from_bytes(SubSeq(bytes, IdBytes + 1, IdBytes + 6)))

\* node_info::serialize
RECURSIVE node_info_serialize(_)
node_info_serialize(nodes) ==
    IF nodes = <<>> THEN <<>>
    ELSE NodeInfo_to_bytes(Head(nodes)) \o node_info_serialize(Tail(nodes))

\* NodeInfoVecVisitor::visit_bytes
node_info_deserialize(v) ==
    IF Len(v) % NodeInfoBytes # 0 THEN DecodeError("invalid_length")
    ELSE IF Len(v) = 0 THEN Decoded(<<>>)
    ELSE Decoded([i \in 1..(Len(v) \div NodeInfoBytes) |->
                    NodeInfo_from_bytes(SubSeq(v, (i - 1) * NodeInfoBytes + 1,
                                               i * NodeInfoBytes))])

\* Each element of a list through one visitor; an error when one fails.
EachDecoded(list, results) ==
    IF \E i \in DOMAIN list : ~results[i].ok THEN DecodeError("invalid_length")
    ELSE IF list = <<>> THEN Decoded(<<>>)
    ELSE Decoded([i \in DOMAIN list |-> results[i].value])

\* Serialize for Response: the fields of the variant, under their names.
serialize_response(r) ==
    CASE r.kind = "NextHop" ->
            ("id" :> as_bytes(r.id)) @@ OptField("token", r.token)
                @@ ("nodes" :> node_info_serialize(r.nodes))
      [] r.kind = "GetPeers" ->
            ("id" :> as_bytes(r.id)) @@ OptField("token", r.token)
                @@ ("values" :> [i \in DOMAIN r.peers |-> addr_to_bytes(r.peers[i])])
      [] r.kind = "OnlyId" -> ("id" :> as_bytes(r.id))
      [] r.kind = "Samples" ->
            ("id" :> as_bytes(r.id)) @@ OptField("interval", r.interval)
                @@ ("nodes" :> node_info_serialize(r.nodes)) @@ OptField("num", r.num)
                @@ ("samples" :> [i \in DOMAIN r.samples |-> as_bytes(r.samples[i])])

\* What each variant of Response makes of a dictionary: it needs its fields
\* that are no Option, and ignores the fields it does not know.
as_NextHop(d) ==
    IF HasField(d, "id") /\ HasField(d, "nodes")
    THEN LET id == visit_bytes(d["id"])
             nodes == node_info_deserialize(d["nodes"])
         IN IF id.ok /\ nodes.ok
            THEN Decoded(NextHop(id.value, FieldOr(d, "token"), nodes.value))
            ELSE DecodeError("invalid_length")
    ELSE DecodeError("missing field")

as_GetPeers(d) ==
    IF HasField(d, "id") /\ HasField(d, "values")
    THEN LET id == visit_bytes(d["id"])
             peers == EachDecoded(d["values"],
                                  [i \in DOMAIN d["values"] |-> Addr_visit_bytes(d["values"][i])])
         IN IF id.ok /\ peers.ok
            THEN Decoded(GetPeersResponse(id.value, FieldOr(d, "token"), peers.value))
            ELSE DecodeError("invalid_length")
    ELSE DecodeError("missing field")

as_OnlyId(d) ==
    IF HasField(d, "id")
    THEN LET id == visit_bytes(d["id"])
         IN IF id.ok THEN Decoded(OnlyId(id.value)) ELSE id
    ELSE DecodeError("missing field")

as_Samples(d) ==
    IF HasField(d, "id") /\ HasField(d, "nodes") /\ HasField(d, "samples")
    THEN LET id == visit_bytes(d["id"])
             nodes == node_info_deserialize(d["nodes"])
             samples == EachDecoded(d["samples"],
                                    [i \in DOMAIN d["samples"] |-> visit_bytes(d["samples"][i])])
         IN IF id.ok /\ nodes.ok /\ samples.ok
            THEN Decoded(Samples(id.value, FieldOr(d, "interval"), nodes.value,
                                 FieldOr(d, "num"), samples.value))
            ELSE DecodeError("invalid_length")
    ELSE DecodeError("missing field")

\* The variants in the order of their declaration.
Variants(d) == <<as_NextHop(d), as_GetPeers(d), as_OnlyId(d), as_Samples(d)>>

\* Deserialize for Response, #[serde(untagged)]: the first variant that
\* the dictionary deserializes as.
deserialize_response(d) ==
    LET tries == Variants(d)
    IN IF \E i \in DOMAIN tries : tries[i].ok
       THEN tries[CHOOSE i \in DOMAIN tries :
                      tries[i].ok /\ \A j \in 1..(i - 1) : ~tries[j].ok]
       ELSE DecodeError("data did not match any variant of untagged enum Response")

\* Serialize for Query, #[serde(tag = "q", content = "a")]
serialize_query(query) ==
    ("q" :> query.q)
        @@ ("a" :>
              CASE query.q = "ping" -> ("id" :> as_bytes(query.id))
                [] query.q \in {"find_node", "sample_infohashes"} ->
                      ("id" :> as_bytes(query.id)) @@ ("target" :> as_bytes(query.target))
                [] query.q = "get_peers" ->
                      ("id" :> as_bytes(query.id))
                          @@ ("info_hash" :> as_bytes(query.info_hash))
                [] query.q = "announce_peer" ->
                      ("id" :> as_bytes(query.id))
                          @@ ("implied_port" :> IF query.implied_port THEN 1 ELSE 0)
                          @@ OptField("port", query.port)
                          @@ ("info_hash" :> as_bytes(query.info_hash))
                          @@ ("token" :> query.token))

\* booleans::deserialize
booleans_deserialize(v) == v = 1

\* The ids a query names, read through the NodeID visitor.
deserialize_query(d) ==
    IF ~(HasField(d, "q") /\ HasField(d, "a")) THEN DecodeError("missing field")
    ELSE LET a == d["a"]
             second == CASE d["q"] \in {"find_node", "sample_infohashes"} -> "target"
                         [] d["q"] \in {"get_peers", "announce_peer"} -> "info_hash"
                         [] OTHER -> "id"
         IN IF d["q"] \notin {"ping", "find_node", "get_peers", "announce_peer",
                              "sample_infohashes"}
            THEN DecodeError("unknown variant")
            ELSE IF ~(HasField(a, "id") /\ HasField(a, second))
            THEN DecodeError("missing field")
            ELSE IF ~(visit_bytes(a["id"]).ok /\ visit_bytes(a[second]).ok)
            THEN DecodeError("invalid_length")
            ELSE LET id == visit_bytes(a["id"]).value
                     other == visit_bytes(a[second]).value
                 IN CASE d["q"] = "ping" -> Decoded(Ping(id))
                      [] d["q"] = "find_node" -> Decoded(FindNodeQuery(id, other))
                      [] d["q"] = "sample_infohashes" -> Decoded(SampleInfoHashes(id, other))
                      [] d["q"] = "get_peers" -> Decoded(GetPeers(id, other))
                      [] d["q"] = "announce_peer" ->
                            IF HasField(a, "implied_port") /\ HasField(a, "token")
                            THEN Decoded(AnnouncePeer(id,
                                                      booleans_deserialize(a["implied_port"]),
                                                      FieldOr(a, "port"), other, a["token"]))
                            ELSE DecodeError("missing field")

\* Message::encode
encode(m) ==
    ("t" :> m.transaction_id)
        @@ OptField("ip", {addr_to_bytes(a) : a \in m.ip})
        @@ OptField("v", m.version)
        @@ (IF m.read_only THEN "ro" :> 1 ELSE NoField)
        @@ ("y" :> m.message_type.y)
        @@ CASE m.message_type.y = "q" -> serialize_query(m.message_type.query)
             [] m.message_type.y = "r" ->
                   ("r" :> serialize_response(m.message_type.response))
             [] m.message_type.y = "e" ->
                   ("e" :> <<m.message_type.error.code, m.message_type.error.message>>)

\* Deserialize for MessageType, #[serde(tag = "y")]
deserialize_message_type(d) ==
    IF ~HasField(d, "y") THEN DecodeError("missing field")
    ELSE CASE d["y"] = "q" ->
                 LET query == deserialize_query(d)
                 IN IF query.ok THEN Decoded([y |-> "q", query |-> query.value]) ELSE query
           [] d["y"] = "r" ->
                 IF ~HasField(d, "r") THEN DecodeError("missing field")
                 ELSE LET response == deserialize_response(d["r"])
                      IN IF response.ok
                         THEN Decoded([y |-> "r", response |-> response.value])
                         ELSE response
           [] d["y"] = "e" ->
                 IF ~HasField(d, "e") THEN DecodeError("missing field")
                 ELSE Decoded([y |-> "e", error |-> ProtocolError(d["e"][1], d["e"][2])])
           [] OTHER -> DecodeError("unknown variant")

\* Message::decode
decode(d) ==
    LET message_type == deserialize_message_type(d)
    IN IF ~HasField(d, "t") THEN DecodeError("missing field")
       ELSE IF ~message_type.ok THEN message_type
       ELSE IF \E b \in FieldOr(d, "ip") : ~Addr_visit_bytes(b).ok
       THEN DecodeError("invalid_length")
       ELSE Decoded([ip |-> {addr_from_bytes(b) : b \in FieldOr(d, "ip")},
                     transaction_id |-> d["t"],
                     version |-> FieldOr(d, "v"),
                     message_type |-> message_type.value,
                     read_only |-> HasField(d, "ro") /\ booleans_deserialize(d["ro"])])

\* The envelopes a caller encodes, built from two ids; an id's first byte
\* may be zero.
CodecIds == {from_bytes([i \in 1..IdBytes |-> IF i = 1 THEN first ELSE 1]) : first \in {0, 139, 255}}
CodecAddr == SocketAddrV4(167772161, 6881)
CodecTokens == {None, Some(<<97, 111>>)}
CodecNodes(id) == {<<>>, <<NodeInfo(id, CodecAddr)>>}

QueriesOf(id, other) ==
    {Ping(id), FindNodeQuery(id, other), GetPeers(id, other), SampleInfoHashes(id, other)}
        \cup {AnnouncePeer(id, implied_port, port, other, <<97, 111>>) :
                 implied_port \in BOOLEAN, port \in AnnouncedPorts}

ResponsesOf(id, other) ==
    {OnlyId(id)}
        \cup {NextHop(id, tok, nodes) : tok \in CodecTokens, nodes \in CodecNodes(other)}
        \cup {GetPeersResponse(id, tok, peers) :
                 tok \in CodecTokens, peers \in {<<>>, <<CodecAddr>>}}
        \cup {Samples(id, interval, nodes, None, samples) :
                 interval \in {None, Some(60)}, nodes \in CodecNodes(other),
                 samples \in {<<>>, <<other>>}}

MessageTypesOf(id, other) ==
    {[y |-> "q", query |-> query] : query \in QueriesOf(id, other)}
        \cup {[y |-> "r", response |-> response] : response \in ResponsesOf(id, other)}
        \cup {[y |-> "e", error |-> ProtocolError(201, "A Generic Error Ocurred")]}

MessagesOf(id, other) ==
    {[Message(<<97, 97>>, message_type, read_only) EXCEPT !.ip = ip, !.version = version] :
        message_type \in MessageTypesOf(id, other), read_only \in BOOLEAN,
        ip \in {None, Some(CodecAddr)}, version \in {None, Some(<<85, 84>>)}}

\* The response bodies other nodes send: an id, and any of the other fields.
BodyFields == {"samples", "nodes", "values", "token", "interval", "num"}
BodyValue(field, id) ==
    CASE field = "samples" -> <<as_bytes(id)>>
      [] field = "nodes" -> NodeInfo_to_bytes(NodeInfo(id, CodecAddr))
      [] field = "values" -> <<addr_to_bytes(CodecAddr)>>
      [] field = "token" -> <<97, 111>>
      [] field = "interval" -> 60
      [] field = "num" -> 1
Body(id, fields) == ("id" :> as_bytes(id)) @@ [field \in fields |-> BodyValue(field, id)]
Datagrams ==
    {("t" :> <<97, 97>>) @@ ("y" :> "r") @@ ("r" :> Body(id, fields)) :
        id \in CodecIds, fields \in SUBSET BodyFields}

\* A caller holds an envelope it built, or a datagram it received.
Built(m, ids) == [value |-> Some(m), ids |-> ids, encoded |-> None, decoded |-> None]
Received(d) == [value |-> None, ids |-> {}, encoded |-> Some(d), decoded |-> None]

Encode ==
    /\ codec # None
    /\ Unwrap(codec).encoded = None
    /\ codec' = {[c EXCEPT !.encoded = Some(encode(Unwrap(c.value)))] : c \in codec}
    /\ UNCHANGED <<token_validator, issued, buckets, torrents, sent, inbound>>
    /\ UNCHANGED <<txVars, rtVars>>

Decode ==
    /\ codec # None
    /\ Unwrap(codec).encoded # None
    /\ Unwrap(codec).decoded = None
    /\ codec' = {[c EXCEPT !.decoded = Some(decode(Unwrap(c.encoded)))] : c \in codec}
    /\ UNCHANGED <<token_validator, issued, buckets, torrents, sent, inbound>>
    /\ UNCHANGED <<txVars, rtVars>>

InitCodec ==
    /\ IdleBut
    /\ \/ \E id, other \in CodecIds : \E m \in MessagesOf(id, other) :
             codec = Some(Built(m, {id, other}))
       \/ \E d \in Datagrams : codec = Some(Received(d))

NextCodec ==
    \/ Encode
    \/ Decode

SpecCodec == InitCodec /\ [][NextCodec]_vars

(***************************************************************************)
(* Claims about the transport.                                             *)
(***************************************************************************)
InFlight(r) == pc[r] \in {"sending", "sent", "waiting", "ready"}
Envelope(r) == Unwrap(Unwrap(outcome[r]).envelope)
HasEnvelope(r) == outcome[r] # None /\ Unwrap(outcome[r]).envelope # None
\* The stream's step read datagram d.
Read(d) == d \in net /\ net' = net \ {d}
IsReply(d) == d.decodable /\ d.y \in {"r", "e"}
FailedItem(step) == \E i \in step.item : ~i.ok

\* C1: whatever the interleaving of requests and replies, the envelope a
\* waiter obtains, and the envelope the registry stores under a token, carries
\* exactly that token in its transaction id.
C1_WaiterGetsItsOwnReply ==
    /\ \A r \in Reqs : HasEnvelope(r) =>
          /\ Len(Envelope(r).transaction_id) = 4
          /\ read_u32_be(Envelope(r).transaction_id) = Unwrap(token[r])
    /\ \A t \in DOMAIN transactions : \A m \in transactions[t].response :
          /\ Len(m.transaction_id) = 4
          /\ read_u32_be(m.transaction_id) = t

\* Two requests with distinct tokens, both outstanding at once, have each
\* returned the reply that carries its token.
C1_Witness ==
    /\ token[1] # token[2]
    /\ \A r \in Reqs : pc[r] = "done" /\ Unwrap(outcome[r]).kind = "Response"

\* C2: every registry entry belongs to a request that is still waiting for
\* its token, and at the step in which a registered request ends (reply,
\* KRPC error, timeout or drop) the registry holds no entry for its token.
C2_NoLeakedEntry ==
    /\ [](\A t \in DOMAIN transactions :
            \E r \in Reqs : pc[r] = "waiting" /\ token[r] = Some(t))
    /\ [][\A r \in Reqs : (pc[r] \in {"waiting", "ready"} /\ pc'[r] = "done")
              => Unwrap(token[r]) \notin DOMAIN transactions']_vars

\* A registered request has timed out and its token is registered again by
\* the next request.
C2_Witness ==
    /\ pc[1] = "done" /\ 1 \in wire /\ Unwrap(outcome[1]).kind = "Timeout"
    /\ pc[2] = "waiting" /\ token[2] = token[1]
    /\ Unwrap(token[2]) \in DOMAIN transactions

\* C3: the token is registered before the query is sent, so a reply to a
\* query that is on the wire, read before its request has been handed a
\* reply or has ended, is never rejected: the stream yields no failed item
\* for it.  (Requests that share the token with another one are left out.)
C3_ReplyToSentQueryNeverUnknown ==
    [][\A d \in net : \A r \in wire :
          ( /\ Read(d)
            /\ pc[r] \in {"sent", "waiting"}
            /\ \A other \in Reqs \ {r} : token[other] # token[r]
            /\ IsReply(d)
            /\ d.from = Unwrap(call[r]).to
            /\ d.transaction_id = to_be_bytes(Unwrap(token[r])) )
          => \A step \in lastRecv' : ~FailedItem(step)]_vars

\* C4: a reply whose token maps to GotResponse changes nothing: no error, no
\* wake-up, the stored reply stays; and no step replaces a stored reply by
\* another reply, so the waiter is handed the first one.
C4_DuplicateReplyDropped ==
    [][ /\ \A d \in net :
            ( /\ Read(d)
              /\ IsReply(d)
              /\ Len(d.transaction_id) = 4
              /\ read_u32_be(d.transaction_id) \in DOMAIN transactions
              /\ transactions[read_u32_be(d.transaction_id)].tag = "GotResponse" )
            => /\ transactions' = transactions
               /\ woken' = woken
               /\ lastRecv' = Some([read |-> Some(d), item |-> None])
        /\ \A t \in DOMAIN transactions :
            ( /\ transactions[t].tag = "GotResponse"
              /\ t \in DOMAIN transactions'
              /\ transactions'[t].tag = "GotResponse" )
            => transactions'[t] = transactions[t]
        /\ \A r \in Reqs :
            ( /\ pc[r] = "waiting" /\ pc'[r] = "ready"
              /\ Unwrap(token[r]) \in DOMAIN transactions )
            => Unwrap(outcome'[r]).envelope = transactions[Unwrap(token[r])].response
      ]_vars

\* The stream has just read an error reply for a token whose stored reply is
\* a response: the duplicate was dropped.
C4_Witness ==
    \E step \in lastRecv : \E d \in step.read :
        /\ d.y = "e" /\ d.decodable /\ Len(d.transaction_id) = 4
        /\ step.item = None
        /\ read_u32_be(d.transaction_id) \in DOMAIN transactions
        /\ \E m \in transactions[read_u32_be(d.transaction_id)].response : m.y = "r"

\* C5: a reply whose transaction id is not 4 bytes long, or whose token is
\* not registered, yields a failed item, leaves the registry as it was and
\* wakes nobody.
C5_BadReplyIsAnError ==
    [][\A d \in net :
          ( /\ Read(d)
            /\ IsReply(d)
            /\ \/ Len(d.transaction_id) # 4
               \/ read_u32_be(d.transaction_id) \notin DOMAIN transactions )
          => /\ \E step \in lastRecv' : step.read = Some(d) /\ FailedItem(step)
             /\ transactions' = transactions
             /\ woken' = woken]_vars

\* The stream has just rejected a reply with a 5-byte transaction id while
\* token 1, which its leading bytes spell, is registered and pending.
C5_Witness ==
    \E step \in lastRecv : \E d \in step.read :
        /\ d.decodable /\ d.y = "r" /\ d.transaction_id = <<0, 0, 0, 1, 0>>
        /\ \E i \in step.item : ~i.ok /\ i.err = "InvalidResponseTransactionId"
        /\ 1 \in DOMAIN transactions
        /\ transactions[1].tag = "AwaitingResponse"

\* C6: registering a token that is already in the registry fails and leaves
\* the entry untouched.
C6_RegisterPresentTokenFails ==
    [][\A r \in Reqs :
          ( /\ pc[r] = "sent" /\ pc'[r] # "sent"
            /\ Unwrap(token[r]) \in DOMAIN transactions )
          => /\ transactions' = transactions
             /\ pc'[r] = "done"]_vars

\* C7: every RequestTransport operation (ping, find_node, get_peers,
\* announce_peer) that is under way eventually returns, reply or no reply:
\* its per-call timeout ends it when no reply comes.
C7_EveryCallReturns ==
    \A r \in Reqs :
        (InFlight(r) /\ Unwrap(call[r]).via = "RequestTransport") ~> (pc[r] = "done")

\* C8: the stream never ends; a datagram that does not decode and a failed
\* read each yield one failed item; and whatever failed before, a query that
\* is read is yielded and a reply that is read for a pending token is stored
\* and wakes the waiter.
C8_StreamSurvivesErrors ==
    /\ [](~streamDone)
    /\ [][ /\ \A d \in net : (Read(d) /\ ~d.decodable) =>
                lastRecv' = Some([read |-> Some(d), item |->
                    Some([ok |-> FALSE, err |-> "InvalidInboundMessage", query |-> None])])
           /\ (lastRecv' # lastRecv /\ \E step \in lastRecv' : step.read = None) =>
                \E step \in lastRecv' : step.item =
                    Some([ok |-> FALSE, err |-> "FailedToReceiveMessage", query |-> None])
           /\ \A d \in net : (Read(d) /\ d.decodable /\ d.y = "q") =>
                lastRecv' = Some([read |-> Some(d), item |->
                    Some([ok |-> TRUE, err |-> "", query |-> Some(d)])])
           /\ \A d \in net :
                ( /\ Read(d)
                  /\ IsReply(d)
                  /\ Len(d.transaction_id) = 4
                  /\ read_u32_be(d.transaction_id) \in DOMAIN transactions
                  /\ transactions[read_u32_be(d.transaction_id)].tag = "AwaitingResponse" )
                => /\ transactions' = map_insert(transactions, read_u32_be(d.transaction_id),
                                                GotResponse(d))
                   /\ woken' = woken \cup transactions[read_u32_be(d.transaction_id)].waker
                   /\ lastRecv' = Some([read |-> Some(d), item |-> None])
         ]_vars

\* After a failed item, the stream has read a reply and completed a waiter
\* with it.
C8_Witness ==
    /\ streamFailed
    /\ ~streamDone
    /\ \E step \in lastRecv : \E d \in step.read :
          /\ IsReply(d) /\ step.item = None
          /\ \E r \in Reqs : pc[r] = "waiting" /\ r \in woken
                /\ Unwrap(token[r]) \in DOMAIN transactions
                /\ transactions[Unwrap(token[r])].response = Some(d)

(***************************************************************************)
(* Claims about the routing table.                                         *)
(***************************************************************************)
\* The bucket add_node's descent reaches for node_id, and the way to it.
TargetPath(node_id) == find_bucket_mut_recursive(root, node_id, 0).path
TargetBucket(node_id) == unwrap_as_leaf(root, TargetPath(node_id))
BadIndices(bucket) ==
    {i \in DOMAIN bucket.contacts : state(bucket.contacts[i], now) = "Bad"}

\* C9: whatever add_node calls were made and however the probes they sent
\* came out, and also while a call waits for a probe's reply, no leaf bucket
\* of the table holds more than K_BUCKET_SIZE contacts.
C9_NoBucketOverfull ==
    \A bucket \in leaves(root) : Len(bucket.contacts) <= K_BUCKET_SIZE

\* The table has been split after probes were sent, and one of its leaves is
\* full.
C9_Witness ==
    /\ root.kind = "Inner"
    /\ probes >= K_BUCKET_SIZE
    /\ \E bucket \in leaves(root) : Len(bucket.contacts) = K_BUCKET_SIZE

\* C10: when add_node's try_add meets a full bucket that holds a Bad contact
\* and no contact with the new id, the call returns at once, without a
\* probe, a reference to the new contact, which is fresh and last in the
\* bucket; exactly one contact is gone from the bucket, it was Bad, and the
\* other seven are what and where they were.
C10_BadContactEvicted ==
    [][\A id \in NodeIDs :
          LET node_info == NodeInfo(id, ProbeAddress)
              path == TargetPath(id)
              bucket == TargetBucket(id)
          IN (/\ add = None
              /\ Len(bucket.contacts) = K_BUCKET_SIZE
              /\ get_node_index(bucket, id) = None
              /\ BadIndices(bucket) # {}
              /\ AddNode(node_info))
             => /\ add' = None
                /\ probes' = 0
                /\ returned' = Some([path |-> path, index |-> K_BUCKET_SIZE])
                /\ \E i \in BadIndices(bucket) :
                      root' = replace_at(root, path,
                                  Leaf([bucket EXCEPT !.contacts =
                                      Append(Remove(@, i),
                                             NodeContactState_new(id, ProbeAddress))]))
                /\ get_node_mut(root', Unwrap(returned')) =
                      NodeContactState_new(id, ProbeAddress)]_vars

\* The ninth id went into the one full bucket of the table without a probe:
\* a Bad contact made room for it.
C10_Witness ==
    /\ root.kind = "Leaf"
    /\ fresh = K_BUCKET_SIZE + 1
    /\ probes = 0
    /\ returned = Some([path |-> <<>>, index |-> K_BUCKET_SIZE])
    /\ Len(root.bucket.contacts) = K_BUCKET_SIZE
    /\ root.bucket.contacts[K_BUCKET_SIZE] =
          NodeContactState_new(script[K_BUCKET_SIZE + 1], ProbeAddress)
    /\ BadIndices(root.bucket) = {}

\* The ids the caller may pass to add_node next.
NextIds == {script[i] : i \in DOMAIN script \cap 1..(fresh + 1)}

IdsOf(contacts) == {contacts[i].id : i \in DOMAIN contacts}
ContactsOf(bucket) == {bucket.contacts[i] : i \in DOMAIN bucket.contacts}
QuestionableIndices(bucket) ==
    {i \in DOMAIN bucket.contacts : state(bucket.contacts[i], now) = "Questionable"}

\* The ids try_add works on while add_node waits for a probe: those of the
\* bucket and that of the contact it took out to probe.
ProbedIds(tree, a) ==
    IdsOf(unwrap_as_leaf(tree, a.path).contacts) \cup {a.questionable_node.id}

\* C11: try_add of a new id on a full bucket that ends without a contact
\* going Bad returns None and removes no contact.  (1) When every contact of
\* the bucket is Good, add_node sends no probe, and the bucket's contacts are
\* afterwards all the contacts of the leaves below the bucket's place, the
\* new one aside (which try_add on a half of the split bucket may add); a
\* bucket that cannot be split is left as it was and add_node returns None.
\* (2) While probes go on, the bucket and the probed contact together keep
\* the 8 ids the bucket had.  (3) When a probe's reply leaves every contact
\* Good, the probed contact is back in the bucket, which holds 8 contacts
\* with those same ids, and (1) holds of it.
C11_NoEvictionKeepsTheBucket ==
    [][/\ \A id \in NextIds :
             LET path == TargetPath(id)
                 bucket == TargetBucket(id)
             IN (/\ add = None
                 /\ Len(bucket.contacts) = K_BUCKET_SIZE
                 /\ get_node_index(bucket, id) = None
                 /\ BadIndices(bucket) = {}
                 /\ QuestionableIndices(bucket) = {}
                 /\ AddNode(NodeInfo(id, ProbeAddress)))
                => /\ add' = None
                   /\ probes' = 0
                   /\ Contacts(node_at(root', path))
                         \ {NodeContactState_new(id, ProbeAddress)} = ContactsOf(bucket)
                   /\ ~can_split(bucket) => root' = root /\ returned' = None
       /\ (add' # None /\ add' # add)
             => LET after == Unwrap(add')
                    before == IF add = None
                              THEN IdsOf(unwrap_as_leaf(root, after.path).contacts)
                              ELSE ProbedIds(root, Unwrap(add))
                IN /\ ProbedIds(root', after) = before
                   /\ Cardinality(before) = K_BUCKET_SIZE
                   /\ Len(unwrap_as_leaf(root', after.path).contacts) = K_BUCKET_SIZE - 1
       /\ (add # None /\ add' = None)
             => LET a == Unwrap(add)
                    bucket == unwrap_as_leaf(root, a.path)
                    node == a.questionable_node
                    new == NodeContactState_new(a.node_info.node_id, a.node_info.address)
                    probed == mark_successful_query(node, now)
                    kept == Append(bucket.contacts, probed)
                IN (/\ PingDone(Some(node.id))
                    /\ \A i \in DOMAIN kept : state(kept[i], now) = "Good")
                   => /\ IdsOf(kept) = ProbedIds(root, a)
                      /\ Cardinality(IdsOf(kept)) = K_BUCKET_SIZE
                      /\ Contacts(node_at(root', a.path)) \ {new}
                            = {kept[i] : i \in DOMAIN kept}
                      /\ ~can_split(bucket) => /\ returned' = None
                                               /\ root' = replace_at(root, a.path,
                                                     Leaf([bucket EXCEPT !.contacts = kept]))
      ]_vars

\* add_node of a new id sent 8 probes to the 8 contacts of a full bucket that
\* cannot be split, every one was answered, and the call returned None: the
\* bucket is full and all its contacts are Good.
C11_Witness ==
    /\ add = None
    /\ returned = None
    /\ probes = K_BUCKET_SIZE
    /\ \E bucket \in leaves(root) :
          /\ ~can_split(bucket)
          /\ Len(bucket.contacts) = K_BUCKET_SIZE
          /\ \A i \in DOMAIN bucket.contacts :
                /\ state(bucket.contacts[i], now) = "Good"
                /\ bucket.contacts[i].last_successful_query_to = Some(now)

\* No inner node stands where a Far leaf was: of the two leaves a split makes
\* one is Far, and it is a leaf for good.
RECURSIVE FarLeavesKept(_)
FarLeavesKept(tree) ==
    \/ tree.kind = "Leaf"
    \/ /\ tree.kind = "Inner"
       /\ \/ /\ tree.left.kind = "Leaf"
             /\ tree.left.bucket.leaf_type = "Far"
             /\ FarLeavesKept(tree.right)
          \/ /\ tree.right.kind = "Leaf"
             /\ tree.right.bucket.leaf_type = "Far"
             /\ FarLeavesKept(tree.left)

\* C12: a Far bucket is never split.  A leaf that a step replaces by an inner
\* node was Near, and so were the leaves split on the way within one call:
\* every inner node keeps a Far leaf as a child.  add_node of a new id routed to a full Far bucket that
\* holds no Bad contact leaves the shape of the tree as it was, in the call
\* and at every reply to a probe; when no contact is Questionable the call
\* sends no probe, returns None and leaves the table unchanged, and when the
\* last probe leaves the probed contact in the bucket the call returns None.
C12_FarBucketNeverSplit ==
    [][/\ \A p \in LeafPaths(root) :
             node_at(root', p).kind = "Inner" => unwrap_as_leaf(root, p).leaf_type = "Near"
       /\ FarLeavesKept(root')
       /\ \A id \in NextIds :
             LET bucket == TargetBucket(id)
             IN (/\ add = None
                 /\ bucket.leaf_type = "Far"
                 /\ Len(bucket.contacts) = K_BUCKET_SIZE
                 /\ get_node_index(bucket, id) = None
                 /\ BadIndices(bucket) = {}
                 /\ AddNode(NodeInfo(id, ProbeAddress)))
                => /\ LeafPaths(root') = LeafPaths(root)
                   /\ QuestionableIndices(bucket) = {}
                         => add' = None /\ returned' = None /\ root' = root
       /\ (add # None /\ unwrap_as_leaf(root, Unwrap(add).path).leaf_type = "Far")
             => LET a == Unwrap(add)
                    node == a.questionable_node
                IN /\ LeafPaths(root') = LeafPaths(root)
                   /\ \A response \in PingResponses(node) :
                         (/\ PingDone(response)
                          /\ add' = None
                          /\ state(ping(node, response, now), now) # "Bad")
                         => /\ returned' = None
                            /\ unwrap_as_leaf(root', a.path).leaf_type = "Far"
                            /\ Len(unwrap_as_leaf(root', a.path).contacts) = K_BUCKET_SIZE
      ]_vars

\* The ninth add_node found the root full, probed its eight contacts, split
\* it and its Near half, and came to a full Far bucket two levels down: it
\* returned None, the eight contacts are in that bucket, the ninth id is not
\* in the table.
C12_Witness ==
    /\ add = None
    /\ returned = None
    /\ fresh = K_BUCKET_SIZE + 1
    /\ TotalContacts(root) = K_BUCKET_SIZE
    /\ \E p \in LeafPaths(root) :
          /\ Len(p) = 2
          /\ unwrap_as_leaf(root, p).leaf_type = "Far"
          /\ Len(unwrap_as_leaf(root, p).contacts) = K_BUCKET_SIZE
          /\ p = find_bucket_mut_recursive(root, script[K_BUCKET_SIZE + 1], 0).path

\* C13: the owner's id has only its top bit set and the caller has added
\* nine ids that have that bit set; all nine are in the table and Good, and
\* the caller looks the ninth up.  Then the root is an inner node over two
\* leaves (one split, at depth 0), no leaf holds more than K_BUCKET_SIZE
\* contacts, and find_node returned the ninth contact.
C13_NineInsertsOneSplit ==
    LET ninth == script[K_BUCKET_SIZE + 1]
    IN (/\ owner_id = TopBit
        /\ \A i \in 1..(K_BUCKET_SIZE + 1) : nth_bit(script[i], NODE_ID_SIZE_BITS - 1)
        /\ lookup # None
        /\ Unwrap(lookup).id = ninth
        /\ fresh = K_BUCKET_SIZE + 1
        /\ TotalContacts(root) = K_BUCKET_SIZE + 1
        /\ \A c \in Contacts(root) : state(c, now) = "Good")
       => /\ root.kind = "Inner"
          /\ root.left.kind = "Leaf"
          /\ root.right.kind = "Leaf"
          /\ \A bucket \in leaves(root) : Len(bucket.contacts) <= K_BUCKET_SIZE
          /\ Unwrap(lookup).result = FindNodeResult_Node(NodeInfo(ninth, ProbeAddress))

\* The Good contacts of a bucket at the time of the call, in bucket order.
GoodOf(bucket) == SelectSeq(bucket.contacts, LAMBDA c : state(c, now) = "Good")

RECURSIVE GoodCount(_)
GoodCount(tree) ==
    IF tree.kind = "Leaf" THEN Len(GoodOf(tree.bucket))
    ELSE GoodCount(tree.left) + GoodCount(tree.right)

\* What a lookup returned, as a list.
Returned_nodes(result) ==
    IF result.kind = "Node" THEN <<result.node>> ELSE result.nodes

\* C14: find_node(id) takes at most 8 contacts, as many as the table has Good
\* ones up to 8, every one Good at the time of the call, those of the leaf
\* that id routes to first and in the order of the bucket.  It returns the
\* one contact whose node id is id exactly when one of the contacts it took
\* has that id, and then a Good contact of that id is in the table; otherwise
\* it returns the list it took, in which no contact has that id.
C14_FindNodeTakesGoodContacts ==
    lookup # None =>
        LET id == Unwrap(lookup).id
            result == Unwrap(lookup).result
            nodes == Returned_nodes(result)
            near == GoodOf(TargetBucket(id))
            taken == Take(find_nodes_generator(root, id, now), 8)
            total == GoodCount(root)
        IN /\ Len(taken) = IF total < 8 THEN total ELSE 8
           /\ \A i \in DOMAIN taken :
                 \E c \in Contacts(root) :
                    /\ state(c, now) = "Good"
                    /\ taken[i] = NodeInfo(c.id, c.address)
           /\ \A i \in DOMAIN near :
                 taken[i] = NodeInfo(near[i].id, near[i].address)
           /\ result.kind \in {"Node", "Nodes"}
           /\ result.kind = "Node" <=> \E i \in DOMAIN taken : taken[i].node_id = id
           /\ result.kind = "Node"
                 => /\ result.node.node_id = id
                    /\ \E i \in DOMAIN taken : taken[i] = result.node
           /\ result.kind = "Nodes" => result.nodes = taken

\* A lookup of an id returned a list of 8 contacts taken from more than one
\* leaf, the first of them from the leaf the id routes to, which also holds
\* a contact that is not Good.
C14_Witness ==
    /\ lookup # None
    /\ Unwrap(lookup).result.kind = "Nodes"
    /\ Len(Unwrap(lookup).result.nodes) = 8
    /\ root.kind = "Inner"
    /\ LET bucket == TargetBucket(Unwrap(lookup).id)
       IN /\ GoodOf(bucket) # <<>>
          /\ Len(GoodOf(bucket)) < Len(bucket.contacts)

\* C15: every contact of the table is in the leaf that descending from the
\* root by the contact's id, as add_node does, ends at.
C15_ContactInTheLeafItsIdRoutesTo ==
    \A p \in LeafPaths(root) :
       \A id \in IdsOf(unwrap_as_leaf(root, p).contacts) : TargetPath(id) = p

NearPaths(tree) == {p \in LeafPaths(tree) : unwrap_as_leaf(tree, p).leaf_type = "Near"}

\* One leaf is Near and the others are Far.
OneNearLeaf ==
    /\ Cardinality(NearPaths(root)) = 1
    /\ \A p \in LeafPaths(root) : unwrap_as_leaf(root, p).leaf_type \in {"Near", "Far"}

\* C16: exactly one leaf of the table is Near, every other leaf is Far, and
\* the Near leaf is the one that descending from the root by the owner's id
\* ends at.
C16_OneNearLeafOnTheOwnersPath ==
    /\ OneNearLeaf
    /\ NearPaths(root) = {TargetPath(owner_id)}

Range(seq) == {seq[i] : i \in DOMAIN seq}
NoRepeats(seq) == \A i, j \in DOMAIN seq : i # j => seq[i] # seq[j]

\* C17: during a bootstrap run find_node is sent to no endpoint twice, and
\* every endpoint that is in the queue, or was and has been sent find_node
\* since, is in the visited set; no endpoint is in the queue twice or is
\* there after find_node was sent to it.
C17_EachEndpointQueriedOnce ==
    /\ NoRepeats(boot.queried)
    /\ NoRepeats(boot.queried \o boot.nodes)
    /\ Range(boot.nodes) \subseteq boot.visited
    /\ Range(boot.queried) \subseteq boot.visited

\* bootstrap went through the whole network, whose endpoints name each
\* other, themselves and the seed more than once, and has returned.
C17_Witness ==
    /\ boot.pc = "done"
    /\ Len(boot.queried) = MaxPeers
    /\ boot.visited = {PeerAddress(k) : k \in Peers}

EndedByAddNode == boot.pc = "done" /\ add = None /\ returned = None /\ boot.queried # <<>>
IsPrefix(s, t) == Len(s) <= Len(t) /\ SubSeq(t, 1, Len(s)) = s

\* C18: bootstrap ends only when its queue is empty or add_node returned
\* None.  A find_node that resolves to an error changes neither the table
\* nor the visited set, and when the queue is not empty it does not end the
\* traversal: find_node is sent to the endpoint at the front of the queue.
\* An endpoint leaves the queue only from its front and by being sent
\* find_node, and bootstrap goes on until it ends in one of the two ways:
\* every endpoint in the queue is sent find_node later on, unless add_node
\* returns None before.
C18_FailedFindNodeGoesOn ==
    /\ [][/\ (boot.pc # "done" /\ boot'.pc = "done")
                => \/ boot.nodes = <<>> /\ boot'.nodes = <<>>
                   \/ /\ boot.pc \in {"find_node", "add_node"}
                      /\ ~FindNodeDone(None)
                      /\ add' = None
                      /\ returned' = None
          /\ FindNodeDone(None)
                => /\ root' = root
                   /\ boot'.visited = boot.visited
                   /\ IF boot.nodes = <<>>
                      THEN boot'.pc = "done"
                      ELSE /\ boot'.pc = "find_node"
                           /\ boot'.next_node = Some(Head(boot.nodes))
                           /\ boot'.nodes = Tail(boot.nodes)
                           /\ boot'.queried = Append(boot.queried, Head(boot.nodes))
          /\ IsPrefix(boot.queried \o boot.nodes, boot'.queried \o boot'.nodes)
          /\ IsPrefix(boot.queried, boot'.queried)
         ]_vars
    /\ [](boot.pc = "done" => (boot.nodes = <<>> \/ EndedByAddNode))
    /\ (boot.pc \in {"find_node", "add_node"}) ~> (boot.pc = "done")

\* The seed answered, find_node to the second endpoint failed, and find_node
\* has been sent to the third.
C18_Witness ==
    /\ boot.pc = "find_node"
    /\ boot.queried = <<PeerAddress(1), PeerAddress(2), PeerAddress(3)>>
    /\ now = 0
    /\ nEvents = 1
    /\ TotalContacts(root) = 1

\* C19: when find_node has answered and add_node has returned a contact,
\* that contact has the node id of the response and the endpoint find_node
\* was sent to, and it is Good.
C19_ResponderAddedAtItsEndpoint ==
    [][boot.pc = "find_node" =>
          \A result \in FindNodeResults(Unwrap(boot.next_node)) \ {None} :
             (FindNodeDone(result) /\ add' = None /\ returned' # None)
             => LET it == get_node_mut(root', Unwrap(returned'))
                IN /\ it.id = Unwrap(result).id
                   /\ it.address = Unwrap(boot.next_node)
                   /\ state(it, now') = "Good"]_vars

\* The same with the address bootstrap was called with.
BootstrapAddsGoodContact ==
    [][boot.pc = "find_node" =>
          \A result \in FindNodeResults(Unwrap(boot.next_node)) \ {None} :
             (FindNodeDone(result) /\ add' = None /\ returned' # None)
             => LET it == get_node_mut(root', Unwrap(returned'))
                IN /\ it.id = Unwrap(result).id
                   /\ it.address = boot.address
                   /\ state(it, now') = "Good"]_vars

\* C20: state() gives every contact exactly one of Good, Questionable and
\* Bad.  Bad iff failed_queries >= 2, whatever the timestamps; otherwise Good
\* iff a successful query landed within the last 15 minutes, or one has ever
\* landed and a request from the node landed within the last 15 minutes;
\* otherwise Questionable.  A contact that never answered a query is never
\* Good.
Within(stamp) == \E at \in stamp : now - at < GoodMinutes
C20_StateOfAContact ==
    \A c \in contact :
        LET s == state(c, now)
            bad == c.failed_queries >= BadFailedQueries
            good == \/ Within(c.last_successful_query_to)
                    \/ c.last_successful_query_to # None /\ Within(c.last_request_from)
        IN /\ s \in {"Good", "Questionable", "Bad"}
           /\ s = "Bad" <=> bad
           /\ s = "Good" <=> ~bad /\ good
           /\ s = "Questionable" <=> ~bad /\ ~good
           /\ c.last_successful_query_to = None => s # "Good"

\* The last answer is exactly fifteen minutes old, a request came since, and
\* one query has failed: the contact is Good through the request alone.
C20_Witness ==
    \E c \in contact :
        /\ c.failed_queries = 1
        /\ c.last_successful_query_to = Some(now - GoodMinutes)
        /\ Within(c.last_request_from)
        /\ state(c, now) = "Good"

\* failed_queries counts the failed queries since the last successful one,
\* so a failed query that finds it at one or more is the second in a row.
\* Below the width of the counter two failed queries in a row leave the
\* contact Bad.
FailuresBelowTheWidthAreBad ==
    [][\A c \in contact : \A d \in contact' :
          (ContactMark("mark_failed_query") /\ c.failed_queries \in 1..(2^8 - 2))
              => state(d, now') = "Bad"]_vars

\* C21: from any contact state, two failed queries in a row with no
\* successful query between them make the contact Bad; one successful query
\* resets failed_queries to zero and makes the contact Good, also when it
\* was Bad; recording a request from the node never changes failed_queries.
C21_FailuresAndSuccesses ==
    [][\A c \in contact : \A d \in contact' :
          /\ (ContactMark("mark_failed_query") /\ c.failed_queries >= 1)
                => state(d, now') = "Bad"
          /\ ContactMark("mark_successful_query")
                => d.failed_queries = 0 /\ state(d, now') = "Good"
          /\ ContactMark("mark_successful_request")
                => d.failed_queries = c.failed_queries]_vars

\* A token verifies for its endpoint until rotate_tokens was called twice.
TokenValidThroughOneRotation ==
    \A i \in issued : i.rotations <= 1 => verify_token(token_validator, i.addr, i.token)

\* C22: a token generated for an endpoint verifies for that endpoint after
\* zero or one rotations of the validator, and no longer verifies once
\* rotate_tokens has been called twice since the token was issued.
C22_TokenLifetime ==
    \A i \in issued :
        verify_token(token_validator, i.addr, i.token) <=> i.rotations <= 1

\* The step handled a query and sent its reply.
Replied == Len(sent') = Len(sent) + 1
LastSent == sent'[Len(sent')]
Handling == Unwrap(inbound')
ErrorReply(code, message) == [y |-> "e", error |-> ProtocolError(code, message)]

\* C23: an announce_peer whose token does not verify for the sender's
\* endpoint is answered with error 203 "Invalid Token"; one whose token
\* verifies, with implied_port false and no port, is answered with error 203
\* "Not enough address info provided"; both leave the announce store as it
\* was.
C23_RejectedAnnounceLeavesTheStore ==
    [][(Replied /\ Handling.request.query.q = "announce_peer") =>
          LET query == Handling.request.query
              verifies == verify_token(token_validator, Handling.from.addr, query.token)
          IN /\ ~verifies =>
                    /\ LastSent.message.message_type = ErrorReply(203, "Invalid Token")
                    /\ torrents' = torrents
             /\ (verifies /\ ~query.implied_port /\ query.port = None) =>
                    /\ LastSent.message.message_type
                          = ErrorReply(203, "Not enough address info provided")
                    /\ torrents' = torrents]_vars

\* Both rejections have been sent and no endpoint is stored.
C23_Witness ==
    /\ \E i \in DOMAIN sent : sent[i].message.message_type = ErrorReply(203, "Invalid Token")
    /\ \E i \in DOMAIN sent :
          sent[i].message.message_type = ErrorReply(203, "Not enough address info provided")
    /\ torrents = <<>>

\* The endpoints stored under an info_hash; none when the store has no entry.
PeersOf(ts, info_hash) == IF info_hash \in DOMAIN ts THEN ts[info_hash] ELSE <<>>

\* C24: a successful announce_peer appends exactly one endpoint to the
\* sequence stored under info_hash: the sender's endpoint when implied_port
\* is set, otherwise the sender's IP with the given port.  Nothing is
\* deduplicated and no other entry changes, so the entries of an info_hash
\* are its successful announces in arrival order.
C24_AnnounceAppendsOneEndpoint ==
    [][(/\ Replied
        /\ Handling.request.query.q = "announce_peer"
        /\ LastSent.message.message_type.y = "r") =>
          LET query == Handling.request.query
              from == Handling.from.addr
              endpoint == IF query.implied_port THEN from
                          ELSE [ip |-> from.ip, port |-> Unwrap(query.port)]
          IN /\ DOMAIN torrents' = DOMAIN torrents \cup {query.info_hash}
             /\ torrents'[query.info_hash]
                   = Append(PeersOf(torrents, query.info_hash), endpoint)
             /\ \A k \in DOMAIN torrents \ {query.info_hash} : torrents'[k] = torrents[k]]_vars

\* One endpoint was announced for one info_hash as often as the handler has
\* replied, and is stored as often.
C24_Witness ==
    \E h \in DOMAIN torrents :
        /\ Len(torrents[h]) = MaxQueries
        /\ \A i \in DOMAIN torrents[h] : torrents[h][i] = torrents[h][1]

\* The query kinds handle_request has a handler for.
Implemented == {"ping", "find_node", "get_peers", "announce_peer"}

\* C25: for every inbound query from an IPv4 sender the handler sends exactly
\* one reply, to the sender's address, with the query's transaction id
\* unchanged, read_only false, and a response or an error body; a query kind
\* without a handler is answered with error 204 "Unimplemented".
C25_OneReplyPerQuery ==
    [][(/\ inbound' # None
        /\ ProcessRequest(Handling)
        /\ Handling.ok
        /\ Handling.from.v4) =>
          /\ Replied
          /\ SubSeq(sent', 1, Len(sent)) = sent
          /\ LastSent.to = Handling.from
          /\ LastSent.message.transaction_id = Handling.request.transaction_id
          /\ LastSent.message.read_only = FALSE
          /\ LastSent.message.message_type.y \in {"r", "e"}
          /\ Handling.request.query.q \notin Implemented =>
                LastSent.message.message_type = ErrorReply(204, "Unimplemented")]_vars

\* Two senders with different transaction ids have each been answered, one
\* of them with a response and one with the error for an unimplemented kind.
C25_Witness ==
    /\ Len(sent) = 2
    /\ inbound # None
    /\ Unwrap(inbound).ok
    /\ Unwrap(inbound).request.query.q = "sample_infohashes"
    /\ Unwrap(inbound).request.read_only
    /\ sent[1].to # sent[2].to
    /\ sent[1].message.transaction_id # sent[2].message.transaction_id
    /\ sent[1].message.message_type.y = "r"
    /\ sent[2].message.message_type = ErrorReply(204, "Unimplemented")
    /\ sent[2].to = Unwrap(inbound).from
    /\ sent[2].message.transaction_id = Unwrap(inbound).request.transaction_id
    /\ ~sent[2].message.read_only

\* What the table is after the sender of the handled query has been looked
\* up or added under its id and the endpoint the query came from, and marked.
SenderRecorded ==
    record_request(buckets, Handling.request.query.id, Handling.from.addr, FALSE, now)

\* Handling a query marked read_only leaves the routing table as it was.
ReadOnlyLeavesTheTable ==
    [][(Replied /\ Handling.request.read_only) => buckets' = buckets]_vars

\* A ping, find_node or get_peers not marked read_only has its sender looked
\* up or added under the endpoint the query came from, and marked.
AnsweredSenderRecorded ==
    [][(/\ Replied
        /\ ~Handling.request.read_only
        /\ Handling.request.query.q \in {"ping", "find_node", "get_peers"}) =>
          buckets' = SenderRecorded]_vars

\* C26: handling a query marked read_only leaves the routing table
\* unchanged; a query not marked read_only has its sender looked up or added
\* by its id and the endpoint it was sent from, and marked as having sent a
\* request.
C26_ReadOnlyOrRecorded ==
    [][Replied =>
          IF Handling.request.read_only
          THEN buckets' = buckets
          ELSE buckets' = SenderRecorded]_vars

\* Bit k of a byte, counted from its least significant bit.
BitOf(byte, k) == (byte \div (2^k)) % 2 = 1

\* nth_bit(n) is bit n counted from the least significant bit of the id: bit
\* n % 8, from the bottom, of the byte n \div 8 places before the last.
NthBitCountsFromTheLeast ==
    \A c \in codec : \A b \in c.bit :
        b.value = BitOf(c.wire[IdBytes - (b.n \div 8)], b.n % 8)

\* C28: nth_bit(n) is bit n of the id counted from the most significant
\* bit: nth_bit(0) is the top bit of the first byte on the wire and the last
\* n gives the lowest bit of the last byte.
C28_NthBitFromTheMostSignificant ==
    \A c \in codec : \A b \in c.bit :
        b.value = BitOf(c.wire[(b.n \div 8) + 1], 7 - (b.n % 8))

\* as_bytes always gives IdBytes bytes, and an id whose first byte on the
\* wire is not zero serializes to the bytes it was built from and
\* deserializes to itself.
FullWidthIdsRoundTrip ==
    \A c \in codec :
        /\ \A bytes \in c.bytes : Len(bytes) = IdBytes
        /\ c.wire[1] # 0 =>
              /\ \A bytes \in c.bytes : bytes = c.wire
              /\ \A d \in c.decoded : d = Decoded(c.id)

\* C29: every node id serializes to exactly IdBytes bytes in big-endian
\* order, padded with zeros in front, so that every id, one whose leading
\* bytes are zero included, is what deserializing its bytes gives back.
C29_IdRoundTrip ==
    \A c \in codec :
        /\ \A bytes \in c.bytes :
              /\ Len(bytes) = IdBytes
              /\ from_bytes_be(bytes) = c.id
        /\ \A d \in c.decoded : d = Decoded(c.id)

\* An id that as_bytes and from_bytes give back.
Canonical(id) == from_bytes(as_bytes(id)) = id

\* An envelope that is no Samples response, built from ids that as_bytes and
\* from_bytes give back, decodes from what it encodes to as itself.
OtherEnvelopesRoundTrip ==
    \A c \in codec : \A m \in c.value : \A d \in c.decoded :
        (/\ \A id \in c.ids : Canonical(id)
         /\ ~(m.message_type.y = "r" /\ m.message_type.response.kind = "Samples")) =>
            d = Decoded(m)

\* C27: every well-typed envelope v (every query kind, every response
\* variant, Samples included, and the error form) decodes from what it
\* encodes to as itself.
C27_CodecRoundTrip ==
    \A c \in codec : \A m \in c.value : \A d \in c.decoded : d = Decoded(m)

\* The variant a decoded datagram's response is.
DecodedKind(c) == Unwrap(c.decoded).value.message_type.response.kind
ReceivedBody(c) == Unwrap(c.encoded)["r"]

\* A response body decodes as the first variant, in the order NextHop,
\* GetPeers, OnlyId, whose fields it carries, and never as Samples.
DecodedInDeclarationOrder ==
    \A c \in codec : (c.value = None /\ c.decoded # None) =>
        /\ Unwrap(c.decoded).ok
        /\ DecodedKind(c) = IF HasField(ReceivedBody(c), "nodes") THEN "NextHop"
                            ELSE IF HasField(ReceivedBody(c), "values") THEN "GetPeers"
                            ELSE "OnlyId"

\* C30: a response body is decoded according to the fields it carries: one
\* with samples as Samples, otherwise one with nodes as NextHop, otherwise
\* one with values as GetPeers, otherwise one with only id as OnlyId.
C30_DecodedByFields ==
    \A c \in codec : (c.value = None /\ c.decoded # None) =>
        /\ Unwrap(c.decoded).ok
        /\ DecodedKind(c) = IF HasField(ReceivedBody(c), "samples") THEN "Samples"
                            ELSE IF HasField(ReceivedBody(c), "nodes") THEN "NextHop"
                            ELSE IF HasField(ReceivedBody(c), "values") THEN "GetPeers"
                            ELSE "OnlyId"

\* The nodes of the handler's table that carry the id.
NodesOf(bs, id) ==
    {bs[b].nodes[i] : <<b, i>> \in {<<b, i>> \in (DOMAIN bs) \X (1..K_BUCKET_SIZE) :
                                       i \in DOMAIN bs[b].nodes /\ bs[b].nodes[i].id = id}}

\* An announce_peer not marked read_only, from a sender the table does not
\* hold yet, has been accepted.
AcceptedAnnounceOfNewSender ==
    /\ Replied
    /\ Handling.request.query.q = "announce_peer"
    /\ ~Handling.request.read_only
    /\ LastSent.message.message_type.y = "r"
    /\ NodesOf(buckets, Handling.request.query.id) = {}

\* With implied_port set, the contact recorded for the sender of an accepted
\* announce_peer carries the endpoint the datagram came from.
ImpliedPortAnnounceRecordsTheSender ==
    [][(AcceptedAnnounceOfNewSender /\ Handling.request.query.implied_port) =>
          /\ NodesOf(buckets', Handling.request.query.id) # {}
          /\ \A node \in NodesOf(buckets', Handling.request.query.id) :
                node.address = Handling.from.addr]_vars

\* C39: the routing-table contact recorded for the sender of an accepted
\* announce_peer carries the endpoint the datagram came from, also when the
\* announce names an explicit port that differs from the sender's source
\* port; the announced port shows only in the announce store.
C39_AnnounceRecordsTheSourceEndpoint ==
    [][AcceptedAnnounceOfNewSender =>
          /\ NodesOf(buckets', Handling.request.query.id) # {}
          /\ \A node \in NodesOf(buckets', Handling.request.query.id) :
                node.address = Handling.from.addr]_vars

\* try_add has just taken a contact out of a bucket to probe it.
Took == add' # None /\ add' # add

\* The contact taken and the contacts take_questionable_node left behind.
TakenNode == Unwrap(add).questionable_node
LeftBehind ==
    LET cs == unwrap_as_leaf(root, Unwrap(add).path).contacts
    IN {cs[i] : i \in DOMAIN cs}

\* lhs comes before rhs when it has fewer failed queries or, with as many,
\* an older last successful query; a contact never queried with success
\* comes after every contact that has been.
before_none_last(lhs, rhs) ==
    IF failed_queries(lhs) # failed_queries(rhs) THEN failed_queries(lhs) < failed_queries(rhs)
    ELSE IF last_contacted(lhs) = None THEN FALSE
    ELSE IF last_contacted(rhs) = None THEN TRUE
    ELSE Unwrap(last_contacted(lhs)) < Unwrap(last_contacted(rhs))

\* The contact taken is Questionable and none of the Questionable contacts
\* left behind comes before it in the order of the comparator, in which a
\* contact never queried with success comes first.
TakesLeastNeverQueriedFirst ==
    [][Took => /\ state(TakenNode', now) = "Questionable"
               /\ \A c \in LeftBehind' :
                     state(c, now) = "Questionable" => ~questionable_less(c, TakenNode')]_vars

\* C31: take_questionable_node removes and returns, among the Questionable
\* contacts of the bucket, the one with the lowest failed_queries and, among
\* those tied, the one with the oldest last successful query, a contact never
\* successfully queried sorting after every contact that has been.
C31_TakesLeastNeverQueriedLast ==
    [][Took => /\ state(TakenNode', now) = "Questionable"
               /\ \A c \in LeftBehind' :
                     state(c, now) = "Questionable" => ~before_none_last(c, TakenNode')]_vars

\* The number of places of the tree that hold the contact c as it is.
RECURSIVE CountOf(_, _)
CountOf(tree, c) ==
    IF tree.kind = "Leaf"
    THEN Cardinality({i \in DOMAIN tree.bucket.contacts : tree.bucket.contacts[i] = c})
    ELSE CountOf(tree.left, c) + CountOf(tree.right, c)

\* The probed contact as the probe's outcome leaves it: one more failed
\* query when no reply came or the reply carried another id, a successful
\* query now when the reply carried the contact's id.
Probed(node, response, t) ==
    IF response = None \/ Unwrap(response) # node.id
    THEN [node EXCEPT !.failed_queries = @ + 1]
    ELSE [node EXCEPT !.failed_queries = 0, !.last_successful_query_to = Some(t)]

\* After the probe the table, with the contact try_add takes out next, holds
\* the probed contact once more than before when it is not Bad, and as often
\* as before when it is Bad.
ProbedKeptUnlessBad(response) ==
    LET probed == Probed(TakenNode, response, now)
        taken_again == IF add' # None /\ TakenNode' = probed THEN 1 ELSE 0
    IN CountOf(root', probed) + taken_again
          = CountOf(root, probed) + (IF state(probed, now) = "Bad" THEN 0 ELSE 1)

\* C32: a probe that errors, times out or is answered with another node id
\* counts as exactly one failed query on the probed contact and one answered
\* with the contact's id as a successful query; the probed contact is
\* discarded iff it is Bad after the probe and put back otherwise.
C32_ProbeOutcome ==
    [][add # None =>
          \A response \in PingResponses(TakenNode) :
             PingDone(response) => ProbedKeptUnlessBad(response)]_vars

\* A ninth add_node to a full bucket has ended after probes: a contact that
\* answered is back in the bucket with the query recorded, and the new
\* contact has the place of one that was discarded.
C32_Witness ==
    /\ add = None
    /\ probes >= 1
    /\ returned # None
    /\ root.kind = "Leaf"
    /\ TotalContacts(root) = K_BUCKET_SIZE
    /\ \E c \in Contacts(root) : c.last_successful_query_to = Some(now) /\ c.failed_queries = 0

\* The leaf at path p is split in this step.
SplitAt(p) == node_at(root', p).kind = "Inner"

\* What the split of the leaf at path p, whose depth is the length of p,
\* leaves below p.  back is the Option of the probed contact that was put
\* back into the leaf before the split; the contact add_node pushes after
\* the split, which returned' refers to, is not one of the split's.
SplitKeeps(p, back) ==
    LET before == node_at(root, p)
        after == node_at(root', p)
        depth == Len(p)
        pushed == TotalContacts(root') = TotalContacts(root) + Cardinality(back) + 1
        own == IF nth_bit(owner_id, depth) THEN after.right ELSE after.left
        other == IF nth_bit(owner_id, depth) THEN after.left ELSE after.right
    IN /\ \A q \in LeafPaths(after) :
             \A i \in DOMAIN unwrap_as_leaf(after, q).contacts :
                \/ pushed /\ returned' = Some([path |-> p \o q, index |-> i])
                \/ nth_bit(unwrap_as_leaf(after, q).contacts[i].id, depth)
                      = (Head(q) = "right")
       /\ \A c \in Contacts(after) \cup Contacts(before) \cup back :
             CountOf(after, c)
                = CountOf(before, c)
                    + (IF c \in back THEN 1 ELSE 0)
                    + (IF pushed /\ get_node_mut(root', Unwrap(returned')) = c THEN 1 ELSE 0)
       /\ own.kind = "Leaf" => own.bucket.leaf_type = "Near"
       /\ other.kind = "Leaf"
       /\ other.bucket.leaf_type = "Far"

\* C33: splitting a bucket at depth d puts every contact whose bit d is zero
\* into the left bucket and every contact whose bit d is one into the right
\* bucket, losing and duplicating none; the bucket on the side of the
\* owner's bit d becomes Near and the other Far.
C33_SplitPartitionsByBit ==
    [][\A p \in LeafPaths(root) :
          SplitAt(p) =>
             IF add = None THEN SplitKeeps(p, None)
             ELSE \A response \in PingResponses(TakenNode) :
                     PingDone(response) =>
                        SplitKeeps(p, Some(Probed(TakenNode, response, now)))]_vars

\* The root has been split and each half holds contacts.
C33_Witness ==
    /\ root.kind = "Inner"
    /\ TotalContacts(root.left) > 0
    /\ TotalContacts(root.right) > 0

\* The buckets are an ordered list of ranges, each ending where the next
\* starts, from key 0 to the end of the key space, and every id is in the
\* range of exactly one of them.
BucketsCoverTheKeySpace ==
    /\ buckets[1].start = 0
    /\ buckets[Len(buckets)].end = 2^NODE_ID_SIZE_BITS
    /\ \A i \in 1..(Len(buckets) - 1) : buckets[i].end = buckets[i + 1].start
    /\ \A i \in DOMAIN buckets : buckets[i].start <= buckets[i].end
    /\ \A id \in NodeIDs :
          Cardinality({i \in DOMAIN buckets : could_hold_node(buckets[i], id)}) = 1

\* C34: after any sequence of add_node and get_or_add calls the buckets of
\* the handler's table are an ordered list of contiguous ranges covering the
\* key space, so for every id exactly one bucket could hold it and the
\* bucket lookup finds that bucket and nothing panics.
C34_LookupFindsTheBucket ==
    /\ BucketsCoverTheKeySpace
    /\ \A id \in NodeIDs :
          binary_search_by(buckets, id) = {i \in DOMAIN buckets : could_hold_node(buckets[i], id)}
    /\ ~TablePanicked

\* The ids of the contacts of the table, the one out for a probe included.
RECURSIVE IdsIn(_)
IdsIn(tree) ==
    IF tree.kind = "Leaf"
    THEN [i \in DOMAIN tree.bucket.contacts |-> tree.bucket.contacts[i].id]
    ELSE IdsIn(tree.left) \o IdsIn(tree.right)

StoredIds == IdsIn(root) \o (IF add = None THEN <<>> ELSE <<TakenNode.id>>)

\* As long as no leaf has been split no id is stored twice.
UnsplitTableStoresAnIdOnce ==
    root.kind = "Leaf" =>
        \A i, j \in DOMAIN StoredIds : StoredIds[i] = StoredIds[j] => i = j

\* C35: after any sequence of add_node calls, those that repeat a stored id
\* and those that cause splits included, each node id is the id of at most
\* one contact of the whole table: add_node of a stored id returns the
\* stored contact and adds no second one.
C35_EachIdStoredOnce ==
    \A i, j \in DOMAIN StoredIds : StoredIds[i] = StoredIds[j] => i = j

\* The calls that have been handed an envelope from the registry.
Completed == {r \in Reqs : outcome[r] # None /\ Unwrap(outcome[r]).envelope # None}

\* The envelope a call is handed carries the call's token.
CompletedByItsToken ==
    \A r \in Completed :
        Unwrap(Unwrap(outcome[r]).envelope).transaction_id = to_be_bytes(Unwrap(token[r]))

\* C36: a pending request is completed only by a reply received from the
\* endpoint the query was sent to; a datagram from another endpoint that
\* carries the token of a request in flight does not complete it.
C36_CompletedByTheQueriedEndpoint ==
    \A r \in Completed :
        Unwrap(Unwrap(outcome[r]).envelope).from = Unwrap(call[r]).to

\* No leaf is deeper than the last bit of an id.
DepthWithinTheId == \A p \in LeafPaths(root) : Len(p) <= NODE_ID_SIZE_BITS - 1

ReplyHandled(r) ==
    /\ pc[r] = "waiting"
    /\ Unwrap(token[r]) \in DOMAIN transactions
    /\ transactions[Unwrap(token[r])].tag = "GotResponse"

\* The call r has been handed the envelope of a reply.
ReplyReturned(r) ==
    /\ pc[r] \in {"ready", "done"}
    /\ outcome[r] # None
    /\ Unwrap(outcome[r]).envelope # None

\* The future of call r was dropped before it was polled again: its timer
\* fired or its caller dropped it.
WaiterDropped(r) ==
    /\ pc[r] = "done"
    /\ outcome[r] # None
    /\ Unwrap(outcome[r]).kind \in {"Timeout", "Dropped"}

\* The envelope poll_response hands the waiter is the one handle_response
\* stored.
ReturnsTheHandledReply ==
    [][\A r \in Reqs :
          (ReplyHandled(r) /\ pc'[r] = "ready") =>
              Unwrap(outcome'[r]).envelope = transactions[Unwrap(token[r])].response]_vars

\* C38: when the reply for a registered token is handled while its waiter
\* exists and the inbound stream keeps being polled, the waiter eventually
\* returns that reply, whether the reply is handled before the waiter's
\* first poll, between two polls or after the waiter stored its waker: no
\* wake-up is lost.
C38_NoLostWakeup ==
    /\ ReturnsTheHandledReply
    /\ \A r \in Reqs : ReplyHandled(r) ~> (ReplyReturned(r) \/ WaiterDropped(r))

\* The inbound stream has handled the reply for the token of a call whose
\* future is pending, and the call's task is due to be polled.
C38_Witness ==
    \E r \in Reqs :
        /\ ReplyHandled(r)
        /\ r \in woken
        /\ lastRecv # None
        /\ Unwrap(lastRecv).item = None
        /\ Unwrap(lastRecv).read # None

=============================================================================
